---- MODULE Spec2Model ----
(***************************************************************************)
(* Layered append-only memory store of rlm-mem (brain/scripts):            *)
(* memory_policy.py, memory_layers.py, memory_schema.py, memory_safety.py, *)
(* layered_memory_store.py, layered_adapter.py and the prune command of    *)
(* memory_cli.py.                                                          *)
(*                                                                         *)
(* Representation.                                                         *)
(*  - A path is the sequence of its components.                            *)
(*  - An agent id is the sequence of the "/"-separated components of the   *)
(*    agent id string ("a/." is <<"a", ".">>), because pathlib joins it    *)
(*    into the layer path component-wise.                                  *)
(*  - A text (content, a tag) is a sequence of tokens; a token is a        *)
(*    whitespace, a separator, a delimiter or a word.                      *)
(*  - A dict is a record whose fields are options: <<>> is "key absent",   *)
(*    <<v>> is "key present with value v".  NULL is JSON null / None.      *)
(*  - A file is a sequence of chunks, one chunk per write(2) call.         *)
(***************************************************************************)
EXTENDS Integers, Sequences, FiniteSets, TLC

----------------------------------------------------------------------------
(* Bounds of the model *)

\* number of calls started (append_entry and get_all_records)
MaxCalls == 3

\* number of tokens of a submitted content
MaxTextLen == 5

\* number of "/"-separated components of an agent id given to
\* resolve_all_layer_paths
MaxIdLen == 3

\* number of chunk-*.json files in the source directory of migrate_chunks
MaxLegacy == 2

\* number of lines of a file that was not written by append_entry
MaxLines == 3

----------------------------------------------------------------------------
(* Generic helpers *)

Some(v) == <<v>>
Missing == <<>>
NULL == "<null>"

Has(d, f) == d[f] # <<>>

Range(s) == {s[i] : i \in 1..Len(s)}

IsPrefix(s, t) == Len(s) <= Len(t) /\ SubSeq(t, 1, Len(s)) = s

RECURSIVE Reverse(_)
Reverse(s) == IF s = <<>> THEN <<>> ELSE Append(Reverse(Tail(s)), Head(s))

RECURSIVE Flatten(_)
Flatten(ss) == IF ss = <<>> THEN <<>> ELSE Head(ss) \o Flatten(Tail(ss))

----------------------------------------------------------------------------
(* memory_policy.py *)

ALLOWED_LAYERS == {"project_agent", "project_global", "user_agent", "user_global"}
USER_GLOBAL_LAYERS == {"user_agent", "user_global"}

\* MemoryPolicy(...) with the dataclass defaults for the fields not given
MemoryPolicy(read, write, allow, rules) ==
    [enabled |-> TRUE,
     read_layers |-> read,
     write_layers |-> write,
     allow_user_global_write |-> allow,
     retention_days |-> 90,
     redaction_rules |-> rules,
     project_root |-> <<"proj">>]

DefaultReadLayers == <<"project_agent", "project_global">>
DefaultWriteLayers == <<"project_agent">>

project_memory_root(policy) == policy.project_root \o <<".agents", "memory">>

HomeDir == <<"home">>
user_memory_root == HomeDir \o <<".agents", "memory">>

----------------------------------------------------------------------------
(* memory_layers.py *)

\* Path.resolve(): "." components are dropped, ".." removes the component
\* before it (no symlinks in the model).
RECURSIVE ResolveFrom(_, _)
ResolveFrom(done, rest) ==
    IF rest = <<>> THEN done
    ELSE IF Head(rest) = "." THEN ResolveFrom(done, Tail(rest))
    ELSE IF Head(rest) = ".."
         THEN ResolveFrom(IF done = <<>> THEN <<>> ELSE SubSeq(done, 1, Len(done) - 1),
                          Tail(rest))
    ELSE ResolveFrom(Append(done, Head(rest)), Tail(rest))

Resolve(p) == ResolveFrom(<<>>, p)

_memory_file(base_dir) == Resolve(base_dir \o <<"memory.jsonl">>)

\* variant: the global files are nested under the agent's directory as well
resolve_all_layer_paths_private_global(policy, agent_id) ==
    [layer \in ALLOWED_LAYERS |->
        CASE layer = "project_agent" ->
                _memory_file(project_memory_root(policy) \o <<"agents">> \o agent_id)
          [] layer = "project_global" ->
                _memory_file(project_memory_root(policy) \o <<"agents">> \o agent_id
                                \o <<"global">>)
          [] layer = "user_agent" ->
                _memory_file(user_memory_root \o <<"agents">> \o agent_id)
          [] layer = "user_global" ->
                _memory_file(user_memory_root \o <<"agents">> \o agent_id \o <<"global">>)]

resolve_all_layer_paths(policy, agent_id) ==
    [layer \in ALLOWED_LAYERS |->
        CASE layer = "project_agent" ->
                _memory_file(project_memory_root(policy) \o <<"agents">> \o agent_id)
          [] layer = "project_global" ->
                _memory_file(project_memory_root(policy) \o <<"global">>)
          [] layer = "user_agent" ->
                _memory_file(user_memory_root \o <<"agents">> \o agent_id)
          [] layer = "user_global" ->
                _memory_file(user_memory_root \o <<"global">>)]

\* the plan is the sequence of {layer, path} entries in read_layers order
build_retrieval_plan(policy, agent_id) ==
    [i \in 1..Len(policy.read_layers) |->
        [layer |-> policy.read_layers[i],
         path |-> resolve_all_layer_paths(policy, agent_id)[policy.read_layers[i]]]]

Parent(p) == SubSeq(p, 1, Len(p) - 1)

\* the directories that Path.mkdir(parents=True, exist_ok=True) makes exist
Ancestors(d) == {SubSeq(d, 1, k) : k \in 1..Len(d)}

----------------------------------------------------------------------------
(* memory_safety.py *)

REDACTED == "[REDACTED]"
DEFAULT_REDACTION_RULES == <<"api_key", "token", "password", "secret", "private_key">>

WhiteSpace == {" "}
Separators == {":", "="}
Delimiters == {",", ";"}

\* variant: the keyword is matched without re.IGNORECASE
Lower_exact(tok) == tok

\* re.IGNORECASE on the words of the model
Lower(tok) == IF tok = "API_KEY" THEN "api_key" ELSE tok

\* [^\s,;]
IsValueTok(tok) == tok \notin WhiteSpace /\ tok \notin Delimiters

\* variant: the opt-in flag is not consulted
should_allow_layer_write_open(layer, policy) == TRUE

should_allow_layer_write(layer, policy) ==
    IF layer \in {"user_agent", "user_global"} /\ ~policy.allow_user_global_write
    THEN FALSE
    ELSE TRUE

\* end of the maximal run of tokens of class cls that starts at position i
RECURSIVE RunEnd(_, _, _)
RunEnd(text, i, cls) ==
    IF i <= Len(text) /\ text[i] \in cls THEN RunEnd(text, i + 1, cls) ELSE i

RECURSIVE ValueEnd(_, _)
ValueEnd(text, i) ==
    IF i <= Len(text) /\ IsValueTok(text[i]) THEN ValueEnd(text, i + 1) ELSE i

\* Where a match of pattern number pat with the keyword at position i has its
\* value group: <<first, last+1>>, or <<0, 0>> when there is no match at i.
\*   pat = 1:  (rule\s*[:=]\s*)([^\s,;]+)
\*   pat = 2:  (rule\s+)([^\s,;]+)
MatchAt(text, i, rule, pat) ==
    IF ~(i <= Len(text) /\ Lower(text[i]) = Lower(rule)) THEN <<0, 0>>
    ELSE LET ws1 == RunEnd(text, i + 1, WhiteSpace)
         IN IF pat = 1
            THEN IF ws1 <= Len(text) /\ text[ws1] \in Separators
                 THEN LET v == RunEnd(text, ws1 + 1, WhiteSpace)
                          e == ValueEnd(text, v)
                      IN IF e > v THEN <<v, e>> ELSE <<0, 0>>
                 ELSE <<0, 0>>
            ELSE LET e == ValueEnd(text, ws1)
                 IN IF ws1 > i + 1 /\ e > ws1 THEN <<ws1, e>> ELSE <<0, 0>>

\* re.sub(pattern, r"\1[REDACTED]", text): leftmost non-overlapping matches
RECURSIVE SubFrom(_, _, _, _)
SubFrom(text, i, rule, pat) ==
    IF i > Len(text) THEN <<>>
    ELSE LET m == MatchAt(text, i, rule, pat)
         IN IF m[1] = 0
            THEN <<text[i]>> \o SubFrom(text, i + 1, rule, pat)
            ELSE SubSeq(text, i, m[1] - 1) \o <<REDACTED>> \o SubFrom(text, m[2], rule, pat)

RECURSIVE ApplyRules(_, _)
ApplyRules(text, rules) ==
    IF rules = <<>> THEN text
    ELSE ApplyRules(SubFrom(SubFrom(text, 1, Head(rules), 1), 1, Head(rules), 2),
                    Tail(rules))

\* variant: an empty rule list means no rule
apply_redaction_rules_no_default(text, rules) == ApplyRules(text, rules)

apply_redaction_rules(text, rules) ==
    ApplyRules(text, IF rules = <<>> THEN DEFAULT_REDACTION_RULES ELSE rules)

----------------------------------------------------------------------------
(* memory_schema.py *)

REQUIRED_FIELDS == <<"id", "created_at", "scope", "entry_type", "content", "project_id">>
ALLOWED_SCOPES == {"project_agent", "project_global", "user_agent", "user_global"}
AGENT_SCOPES == {"project_agent", "user_agent"}

\* the keys of a record whose values are sequences (a text, a list, an agent id)
SeqFields == {"content", "agent_id", "tags"}

\* Python's "not record.get(field)"
Falsy(d, f) ==
    \/ ~Has(d, f)
    \/ IF f \in SeqFields THEN d[f][1] = <<>> ELSE d[f][1] \in {NULL, ""}

IsNone(d, f) == Has(d, f) /\ f \notin SeqFields /\ d[f][1] = NULL

NoWarning == [code |-> "none", missing_fields |-> <<>>, line |-> 0]

\* a decoded JSON value that is not an object (a list, a string, a number, null)
NonDict == [json |-> "list"]

\* isinstance(record, dict)
IsDict(record) == "id" \in DOMAIN record

\* the scope values that are a JSON list or object: "scope not in
\* ALLOWED_SCOPES" hashes the value, and hashing a list or dict raises TypeError
Unhashable == {"<list>"}

_warning(code, line_number, missing) ==
    [code |-> code, missing_fields |-> missing, line |-> line_number]

\* variant: the optional fields are left as they are
Normalize_identity(record) == record

\* normalized = dict(record) with the defaults of the optional fields
Normalize(record) ==
    [record EXCEPT
        !.tags = IF ~Has(record, "tags") THEN Some(<<>>) ELSE @,
        !.confidence = IF ~Has(record, "confidence") \/ IsNone(record, "confidence")
                       THEN Some("0.7") ELSE @,
        !.source = IF Falsy(record, "source") THEN Some("unknown") ELSE @,
        !.expires_at = IF ~Has(record, "expires_at") THEN Some(NULL) ELSE @]

\* The result is (record, warning); record = <<>> stands for None.  raised
\* names the exception when the call does not return.
validate_record(record, line_number) ==
    IF ~IsDict(record)
    THEN [record |-> <<>>, raised |-> "",
          warning |-> _warning("invalid_record_type", line_number, <<>>)]
    ELSE
    LET missing_fields == SelectSeq(REQUIRED_FIELDS, LAMBDA f : Falsy(record, f))
    IN IF missing_fields # <<>>
       THEN [record |-> <<>>, raised |-> "",
             warning |-> _warning("missing_required_fields", line_number, missing_fields)]
       ELSE IF record.scope[1] \in Unhashable
       THEN [record |-> <<>>, raised |-> "TypeError", warning |-> NoWarning]
       ELSE IF record.scope[1] \notin ALLOWED_SCOPES
       THEN [record |-> <<>>, raised |-> "",
             warning |-> _warning("invalid_scope", line_number, <<>>)]
       ELSE IF record.scope[1] \in AGENT_SCOPES /\ Falsy(record, "agent_id")
       THEN [record |-> <<>>, raised |-> "",
             warning |-> _warning("invalid_agent_scope", line_number, <<>>)]
       ELSE [record |-> <<Normalize(record)>>, raised |-> "", warning |-> NoWarning]

\* The content of a file is the sequence of the chunks written to it.  A chunk
\* is a whole payload line ("full"), the first part of one ("head") or the
\* rest of one ("tail"); "full" and "tail" chunks end with the newline.
\* A chunk also carries history: who wrote it (by) and, on the chunk that
\* completes a payload, the serial number of the write (call).
\* A file that was not written by append_entry alone may also hold a line
\* that is no JSON text ("junk") and a line of whitespace ("blank").
RECURSIVE SplitLines(_, _)
SplitLines(chunks, cur) ==
    IF chunks = <<>> THEN (IF cur = <<>> THEN <<>> ELSE <<cur>>)
    ELSE IF Head(chunks).part \in {"full", "tail", "junk", "blank"}
         THEN <<Append(cur, Head(chunks))>> \o SplitLines(Tail(chunks), <<>>)
         ELSE SplitLines(Tail(chunks), Append(cur, Head(chunks)))

\* the lines that "for raw_line in handle" yields
RawLines(chunks) == SplitLines(chunks, <<>>)

\* variant: the decoder accepts the first part of a payload
json_loads_lenient(line) ==
    IF line # <<>> /\ line[Len(line)].part \in {"full", "head", "tail"}
    THEN [ok |-> TRUE, obj |-> line[Len(line)].obj, call |-> line[Len(line)].call,
          by |-> line[Len(line)].by]
    ELSE [ok |-> FALSE, obj |-> <<>>, call |-> 0, by |-> ""]

\* json.loads of a raw line: the line decodes when it is one whole payload or
\* the head and the tail of the same payload
json_loads(line) ==
    IF Len(line) = 1 /\ line[1].part = "full"
    THEN [ok |-> TRUE, obj |-> line[1].obj, call |-> line[1].call, by |-> line[1].by]
    ELSE IF /\ Len(line) = 2
            /\ line[1].part = "head" /\ line[2].part = "tail"
            /\ line[1].by = line[2].by /\ line[1].obj = line[2].obj
    THEN [ok |-> TRUE, obj |-> line[2].obj, call |-> line[2].call, by |-> line[2].by]
    ELSE [ok |-> FALSE, obj |-> <<>>, call |-> 0, by |-> ""]

\* raw_line.strip() is empty
IsBlank(line) == \A i \in 1..Len(line) : line[i].part = "blank"

\* (valid_records, warnings); a valid record keeps the serial number and the
\* writer of the write that stored it (history, not part of the record).
\* An exception of validate_record ends the loop and leaves the function.
RECURSIVE LoadFrom(_, _)
LoadFrom(lines, line_number) ==
    IF line_number > Len(lines) THEN [records |-> <<>>, warnings |-> <<>>, raised |-> ""]
    ELSE IF IsBlank(lines[line_number]) THEN LoadFrom(lines, line_number + 1)
    ELSE LET parsed == json_loads(lines[line_number])
         IN IF ~parsed.ok
            THEN LET rest == LoadFrom(lines, line_number + 1)
                 IN [rest EXCEPT !.warnings =
                        <<_warning("invalid_json", line_number, <<>>)>> \o @]
            ELSE LET v == validate_record(parsed.obj, line_number)
                 IN IF v.raised # ""
                    THEN [records |-> <<>>, warnings |-> <<>>, raised |-> v.raised]
                    ELSE LET rest == LoadFrom(lines, line_number + 1)
                         IN IF v.warning # NoWarning
                            THEN [rest EXCEPT !.warnings = <<v.warning>> \o @]
                            ELSE [rest EXCEPT !.records =
                                    <<[rec |-> v.record[1], call |-> parsed.call,
                                       by |-> parsed.by]>> \o @]

load_jsonl_records(exists, chunks) ==
    IF ~exists THEN [records |-> <<>>, warnings |-> <<>>, raised |-> ""]
    ELSE LoadFrom(RawLines(chunks), 1)

----------------------------------------------------------------------------
(* The callers: two threads, each with its own LayeredMemoryStore *)

Writers == {"w1", "w2"}

\* the agent ids "agent-a", "agent-a/." and "agent-b"
AgentA == <<"agent-a">>
AgentADot == <<"agent-a", ".">>
AgentB == <<"agent-b">>
AgentIds == {AgentA, AgentADot, AgentB}

\* the agent id "../global"
AgentUp == <<"..", "global">>

\* setup_store of memory_cli.py: agent_id = "cli-operator"
CliAgent == <<"cli-operator">>

\* migrate_chunks: agent_id = "migration-tool"
MigAgent == <<"migration-tool">>

PolTest == MemoryPolicy(DefaultReadLayers, <<"project_agent", "project_global">>,
                        FALSE, <<"api_key">>)
PolReversed == MemoryPolicy(<<"project_global", "project_agent">>,
                            <<"project_agent", "project_global">>, FALSE, <<>>)
PolUserBlocked == MemoryPolicy(DefaultReadLayers, <<"project_agent", "user_global">>,
                               FALSE, <<>>)
PolUserOpen == MemoryPolicy(<<"user_global", "project_agent">>,
                            <<"project_global", "user_global">>, TRUE, <<>>)
PolDefault == MemoryPolicy(DefaultReadLayers, DefaultWriteLayers, FALSE, <<>>)

Policies == {PolTest, PolReversed, PolUserBlocked, PolUserOpen}

\* a layer named twice in read_layers: _ensure_layer_list looks for unknown
\* names only and returns the list as it is
PolTwice == MemoryPolicy(<<"project_global", "project_global">>, DefaultWriteLayers,
                         FALSE, <<>>)

\* policies with a name that is no layer, as MemoryPolicy(...) accepts them
PolBogusRead == MemoryPolicy(<<"project_agent", "bogus_layer">>, DefaultWriteLayers,
                             FALSE, <<>>)
PolBogusWrite == MemoryPolicy(DefaultReadLayers, <<"project_agent", "bogus_layer">>,
                              FALSE, <<>>)

ConfigPolicies == {PolDefault, PolTest, PolBogusRead, PolBogusWrite}

\* every layer read and written, with two rules
PolAllLayers == MemoryPolicy(<<"project_agent", "project_global", "user_agent", "user_global">>,
                             <<"project_agent", "project_global", "user_agent", "user_global">>,
                             TRUE, <<"password", "api_key">>)

\* the policies _prepare_record is applied under
ProbePolicies == Policies \cup {PolAllLayers}

LayerArgs == ALLOWED_LAYERS \cup {"bogus_layer"}

Plain == <<"hello">>
Secret == <<"api_key", ":", " ", "sk-12345">>

BaseRecord(id, content) ==
    [id |-> Some(id), created_at |-> Some("d2"), scope |-> Missing,
     entry_type |-> Some("fact"), content |-> Some(content),
     project_id |-> Some("rlm-mem"), agent_id |-> Missing, tags |-> Missing,
     confidence |-> Missing, source |-> Missing, expires_at |-> Missing]

\* a record with only the required fields
MinimalRecord == BaseRecord("r2", Plain)

\* an old record with a secret in content and tags, a scope that is not the
\* layer's, and the agent id of another agent
SecretRecord ==
    [BaseRecord("r1", Secret) EXCEPT !.created_at = Some("d1"),
                                     !.scope = Some("user_global"),
                                     !.agent_id = Some(<<"agent-b">>),
                                     !.tags = Some(<< <<"API_KEY", "=", "secret">> >>)]

\* a record without a usable id
InvalidRecord == [BaseRecord("", Plain) EXCEPT !.source = Some("test")]

InputRecords == {MinimalRecord, SecretRecord, InvalidRecord}

\* the contents submitted to _prepare_record: every text of at most MaxTextLen
\* tokens over a keyword, a separator, a blank and a value, and some texts
\* with the other kinds of token
Alphabet == {"api_key", ":", " ", "sk-12345"}
TextsOfLen(n) == [1..n -> Alphabet]
ExtraTexts == {Plain,
               <<"API_KEY", "=", "sk-12345", ",", "sk-12345">>,
               <<"password", ":", " ", "sk-12345", ";", "hello">>,
               <<"api_key", " ", "=", " ", "sk-12345">>}
ProbeTexts == (UNION {TextsOfLen(n) : n \in 1..MaxTextLen}) \cup ExtraTexts

ProbeTags == {<<>>,
              << <<"api_key", ":", "secret">> >>,
              << <<"hello">>, <<"password", "=", "sk-12345">>, <<"API_KEY", " ", "sk-12345">> >>}

ProbeRecords ==
    {BaseRecord("r2", t) : t \in ProbeTexts}
        \cup {[BaseRecord("r2", Plain) EXCEPT !.tags = Some(tags)] : tags \in ProbeTags}
        \cup InputRecords

\* the records validate_record is applied to: every combination of absent,
\* empty and given required fields with the kinds of scope and agent_id, and
\* every combination of the optional fields on a valid record
ScopeOptions == {Missing, Some(""), Some("project_agent"), Some("project_global"),
                 Some("bogus"), Some("<list>")}

RequiredVariants ==
    {[BaseRecord("r2", Plain) EXCEPT !.id = i, !.created_at = c, !.entry_type = e,
                                     !.content = t, !.project_id = p, !.scope = sc,
                                     !.agent_id = a] :
        i \in {Missing, Some(""), Some("r2")}, c \in {Missing, Some("d2")},
        e \in {Missing, Some("fact")}, t \in {Missing, Some(<<>>), Some(Plain)},
        p \in {Missing, Some("rlm-mem")}, sc \in ScopeOptions,
        a \in {Missing, Some(<<>>), Some(AgentA)}}

OptionalVariants ==
    {[BaseRecord("r2", Plain) EXCEPT !.scope = sa[1], !.agent_id = sa[2], !.tags = t,
                                     !.confidence = c, !.source = so, !.expires_at = x] :
        sa \in {<<Some("project_agent"), Some(AgentA)>>, <<Some("project_global"), Missing>>},
        t \in {Missing, Some(<<>>), Some(<< <<"hello">> >>)},
        c \in {Missing, Some(NULL), Some("0.9")},
        so \in {Missing, Some(""), Some(NULL), Some("test")},
        x \in {Missing, Some(NULL), Some("d9")}}

SchemaInputs == RequiredVariants \cup OptionalVariants \cup {NonDict}

\* The lines of a file that other programs, older versions or a crash have
\* left: records as append_entry stores them, records that need the defaults,
\* text that is no JSON, blank lines, JSON values that are no object, records
\* that fail each check of validate_record, and the first part of a payload.
Foreign(part, obj) == [part |-> part, obj |-> obj, by |-> "ext", call |-> 0]

GlobalRecord(id) == [BaseRecord(id, Plain) EXCEPT !.scope = Some("project_global")]

LineKinds ==
    {Foreign("full", Normalize(GlobalRecord("r1"))),
     Foreign("full", GlobalRecord("r2")),
     Foreign("junk", NonDict),
     Foreign("blank", NonDict),
     Foreign("full", NonDict),
     Foreign("full", [GlobalRecord("") EXCEPT !.content = Missing]),
     Foreign("full", [GlobalRecord("r3") EXCEPT !.scope = Some("bogus")]),
     Foreign("full", [GlobalRecord("r4") EXCEPT !.scope = Some("user_agent")]),
     Foreign("full", [GlobalRecord("r5") EXCEPT !.scope = Some("<list>")]),
     Foreign("head", GlobalRecord("r6"))}

FileContents == UNION {[1..n -> LineKinds] : n \in 0..MaxLines}

----------------------------------------------------------------------------
(* State *)

VARIABLES
    policy,     \* the MemoryPolicy the Stores were constructed with
    agent,      \* the agent_id each caller's Store was constructed with
    dirs,       \* the directories that exist
    exists,     \* the layer files that exist
    files,      \* path -> the chunks of the file
    locks,      \* the targets whose sentinel <target>.lock exists
    pc,         \* where each caller is
    cur,        \* the call in progress of each caller
    view,       \* all_records of a get_all_records in progress
    outcome,    \* what the append_entry that ended in the last step returned or raised
    ncalls,     \* history: number of calls started
    nwritten,   \* history: number of payloads completely written
    acked,      \* history: the append_entry calls that returned an id
    gstart,     \* history: nwritten when the caller's get_all_records started
    cli,        \* the prune command in progress
    probe,      \* the arguments and the result of one _prepare_record call
    durable,    \* path -> the chunks of the file that are on the storage device
    mig,        \* the migrate_chunks runs: the run in progress and those done
    adapter     \* a LayeredChunkStoreAdapter: its write layer, the chunk saved, the chunk got

vars == <<policy, agent, dirs, exists, files, locks, pc, cur, view, outcome, ncalls,
          nwritten, acked, gstart, cli, probe, durable, mig, adapter>>

_paths(w) == resolve_all_layer_paths(policy, agent[w])

\* every file a caller of the model can name
AllPaths == UNION {{resolve_all_layer_paths(PolDefault, a)[layer] :
                        layer \in ALLOWED_LAYERS} : a \in AgentIds \cup {CliAgent, MigAgent}}

NoCall == [layer |-> "", target |-> <<>>, payload |-> <<>>, idx |-> 0]
NoOutcome == [status |-> "none", err |-> "", layer |-> "", id |-> ""]

CliIdle == [pc |-> "idle", idx |-> 0, cutoff |-> 0, target |-> <<>>, retained |-> <<>>]

NoProbe == [layer |-> "", record |-> <<>>, err |-> "", rec |-> <<>>]

\* no adapter is in use
NoAdapter == [pc |-> "none", default_write_layer |-> "", prior |-> {}, saved |-> <<>>,
              got |-> <<>>]

\* no migrate_chunks run has started
NoMig == [pc |-> "idle", run |-> 0, src |-> <<>>, dest_layer |-> "", idx |-> 0,
          existing |-> {}, count |-> 0, skipped |-> 0, errors |-> 0, after |-> <<>>]

Init ==
    /\ policy \in Policies
    /\ agent \in {f \in [Writers -> AgentIds] : f["w1"] = AgentA /\ f["w2"] # AgentA}
    /\ dirs = {<<"proj">>, HomeDir}
    /\ exists = {}
    /\ files = [p \in AllPaths |-> <<>>]
    /\ locks = {}
    /\ pc = [w \in Writers |-> "idle"]
    /\ cur = [w \in Writers |-> NoCall]
    /\ view = [w \in Writers |-> <<>>]
    /\ outcome = NoOutcome
    /\ ncalls = 0
    /\ nwritten = 0
    /\ acked = {}
    /\ gstart = [w \in Writers |-> 0]
    /\ cli = CliIdle
    /\ probe = NoProbe
    /\ durable = [p \in AllPaths |-> <<>>]
    /\ mig = NoMig
    /\ adapter = NoAdapter

\* the Stores before _prepare_record is applied on its own
InitPrepare ==
    /\ policy \in ProbePolicies
    /\ agent \in {f \in [Writers -> AgentIds] : f["w1"] = AgentA /\ f["w2"] # AgentA}
    /\ dirs = {<<"proj">>, HomeDir}
    /\ exists = {}
    /\ files = [p \in AllPaths |-> <<>>]
    /\ locks = {}
    /\ pc = [w \in Writers |-> "idle"]
    /\ cur = [w \in Writers |-> NoCall]
    /\ view = [w \in Writers |-> <<>>]
    /\ outcome = NoOutcome
    /\ ncalls = 0
    /\ nwritten = 0
    /\ acked = {}
    /\ gstart = [w \in Writers |-> 0]
    /\ cli = CliIdle
    /\ probe = NoProbe
    /\ durable = [p \in AllPaths |-> <<>>]
    /\ mig = NoMig
    /\ adapter = NoAdapter

\* the Stores whose appends meet at the locks: the second agent id is a plain
\* name or one with a ".." component
InitLock ==
    /\ policy = PolTest
    /\ agent \in {f \in [Writers -> {AgentA, AgentB, AgentUp}] :
                     f["w1"] = AgentA /\ f["w2"] # AgentA}
    /\ dirs = {<<"proj">>, HomeDir}
    /\ exists = {}
    /\ files = [p \in AllPaths |-> <<>>]
    /\ locks = {}
    /\ pc = [w \in Writers |-> "idle"]
    /\ cur = [w \in Writers |-> NoCall]
    /\ view = [w \in Writers |-> <<>>]
    /\ outcome = NoOutcome
    /\ ncalls = 0
    /\ nwritten = 0
    /\ acked = {}
    /\ gstart = [w \in Writers |-> 0]
    /\ cli = CliIdle
    /\ probe = NoProbe
    /\ durable = [p \in AllPaths |-> <<>>]
    /\ mig = NoMig
    /\ adapter = NoAdapter

\* two Stores constructed with a policy that was or was not loaded
InitConfig ==
    /\ policy \in ConfigPolicies
    /\ agent = [w \in Writers |-> IF w = "w1" THEN AgentA ELSE AgentB]
    /\ dirs = {<<"proj">>, HomeDir}
    /\ exists = {}
    /\ files = [p \in AllPaths |-> <<>>]
    /\ locks = {}
    /\ pc = [w \in Writers |-> "idle"]
    /\ cur = [w \in Writers |-> NoCall]
    /\ view = [w \in Writers |-> <<>>]
    /\ outcome = NoOutcome
    /\ ncalls = 0
    /\ nwritten = 0
    /\ acked = {}
    /\ gstart = [w \in Writers |-> 0]
    /\ cli = CliIdle
    /\ probe = NoProbe
    /\ durable = [p \in AllPaths |-> <<>>]
    /\ mig = NoMig
    /\ adapter = NoAdapter

\* two Stores of two agents on a fresh project
InitCrash ==
    /\ policy = PolTest
    /\ agent = [w \in Writers |-> IF w = "w1" THEN AgentA ELSE AgentB]
    /\ dirs = {<<"proj">>, HomeDir}
    /\ exists = {}
    /\ files = [p \in AllPaths |-> <<>>]
    /\ locks = {}
    /\ pc = [w \in Writers |-> "idle"]
    /\ cur = [w \in Writers |-> NoCall]
    /\ view = [w \in Writers |-> <<>>]
    /\ outcome = NoOutcome
    /\ ncalls = 0
    /\ nwritten = 0
    /\ acked = {}
    /\ gstart = [w \in Writers |-> 0]
    /\ cli = CliIdle
    /\ probe = NoProbe
    /\ durable = [p \in AllPaths |-> <<>>]
    /\ mig = NoMig
    /\ adapter = NoAdapter

\* one Store and no file: the functions of memory_schema.py on their own
InitSchema == InitCrash

\* two Stores on a project whose project_global file exists with lines that
\* were not all written by append_entry
InitLoad ==
    /\ policy = PolTest
    /\ agent = [w \in Writers |-> IF w = "w1" THEN AgentA ELSE AgentB]
    /\ \E chunks \in FileContents :
         LET target == resolve_all_layer_paths(PolTest, AgentA)["project_global"]
         IN /\ files = [p \in AllPaths |-> IF p = target THEN chunks ELSE <<>>]
            /\ exists = {target}
            /\ dirs = {<<"proj">>, HomeDir} \cup Ancestors(Parent(target))
    /\ durable = files
    /\ mig = NoMig
    /\ adapter = NoAdapter
    /\ locks = {}
    /\ pc = [w \in Writers |-> "idle"]
    /\ cur = [w \in Writers |-> NoCall]
    /\ view = [w \in Writers |-> <<>>]
    /\ outcome = NoOutcome
    /\ ncalls = 0
    /\ nwritten = 0
    /\ acked = {}
    /\ gstart = [w \in Writers |-> 0]
    /\ cli = CliIdle
    /\ probe = NoProbe

\* get_all_records over files that are already there: the file of
\* project_global holds any of the bounded contents, the file of
\* project_agent one stored record, and read_layers is one of three lists
ReadPolicies == {PolTest, PolReversed, PolTwice}

AgentLine == Foreign("full", Normalize(BaseRecord("r7", Plain)))

InitRead ==
    /\ policy \in ReadPolicies
    /\ agent = [w \in Writers |-> IF w = "w1" THEN AgentA ELSE AgentB]
    /\ \E chunks \in FileContents :
         LET target == resolve_all_layer_paths(PolTest, AgentA)["project_global"]
             own == resolve_all_layer_paths(PolTest, AgentA)["project_agent"]
         IN /\ files = [p \in AllPaths |-> IF p = target THEN chunks
                                           ELSE IF p = own THEN <<AgentLine>> ELSE <<>>]
            /\ exists = {target, own}
            /\ dirs = {<<"proj">>, HomeDir} \cup Ancestors(Parent(target))
                                            \cup Ancestors(Parent(own))
    /\ durable = files
    /\ mig = NoMig
    /\ adapter = NoAdapter
    /\ locks = {}
    /\ pc = [w \in Writers |-> "idle"]
    /\ cur = [w \in Writers |-> NoCall]
    /\ view = [w \in Writers |-> <<>>]
    /\ outcome = NoOutcome
    /\ ncalls = 0
    /\ nwritten = 0
    /\ acked = {}
    /\ gstart = [w \in Writers |-> 0]
    /\ cli = CliIdle
    /\ probe = NoProbe

----------------------------------------------------------------------------
(* memory_schema.py applied to the bounded inputs *)

\* validate_record on one record, and again on what it returned
ValidateRecord ==
    /\ probe = NoProbe
    /\ \E record \in SchemaInputs, line_number \in {0, 3} :
         LET out == validate_record(record, line_number)
         IN probe' = [fn |-> "validate_record", record |-> record,
                      line |-> line_number, out |-> out,
                      again |-> IF out.record # <<>>
                                THEN validate_record(out.record[1], line_number)
                                ELSE out]
    /\ UNCHANGED <<adapter, mig, policy, agent, dirs, exists, files, locks, pc, cur, view, outcome,
                   ncalls, nwritten, acked, gstart, cli, durable>>

\* load_jsonl_records on one file, or on a path where no file is
LoadJsonl ==
    /\ probe = NoProbe
    /\ \E chunks \in FileContents, there \in BOOLEAN :
         /\ (~there => chunks = <<>>)
         /\ probe' = [fn |-> "load_jsonl_records", there |-> there, chunks |-> chunks,
                      out |-> load_jsonl_records(there, chunks)]
    /\ UNCHANGED <<adapter, mig, policy, agent, dirs, exists, files, locks, pc, cur, view, outcome,
                   ncalls, nwritten, acked, gstart, cli, durable>>

\* The arguments resolve_all_layer_paths is applied to: the project root is
\* a directory, the home directory, a directory below it, or None; the agent
\* id is any string of at most MaxIdLen components (names, ".", ".."), the
\* empty string included.
ProbeRoots == {Some(<<"proj">>), Some(HomeDir), Some(HomeDir \o <<"work">>), Missing}
PathComponents == {"agent-a", "agent-b", ".", "..", "global", "agents"}
ProbeAgentIds == UNION {[1..n -> PathComponents] : n \in 0..MaxIdLen}

\* resolve_all_layer_paths on one policy and one agent id: ValueError for an
\* empty agent id or a policy without project_root, the four paths otherwise
ResolveLayerPaths ==
    /\ probe = NoProbe
    /\ \E root \in ProbeRoots, agent_id \in ProbeAgentIds :
         probe' = [fn |-> "resolve_all_layer_paths", project_root |-> root,
                   agent_id |-> agent_id,
                   raised |-> IF agent_id = <<>> \/ root = Missing THEN "ValueError" ELSE "",
                   out |-> IF agent_id = <<>> \/ root = Missing THEN <<>>
                           ELSE resolve_all_layer_paths(
                                    [PolDefault EXCEPT !.project_root = root[1]], agent_id)]
    /\ UNCHANGED <<adapter, mig, policy, agent, dirs, exists, files, locks, pc, cur, view, outcome,
                   ncalls, nwritten, acked, gstart, cli, durable>>

----------------------------------------------------------------------------
(* layered_memory_store.py *)

\* The variants of _prepare_record: the permission check first or second, and
\* the layers whose records are redacted.
PrepareVariant(pol, agent_id, layer, record, permission_first, redacted_layers) ==
    LET unwritable == layer \notin Range(pol.write_layers)
        blocked == ~should_allow_layer_write(layer, pol)
    IN IF (IF permission_first THEN blocked ELSE unwritable)
       THEN [err |-> IF permission_first THEN "PermissionError" ELSE "LayerNotWritable",
             rec |-> <<>>]
       ELSE IF (IF permission_first THEN unwritable ELSE blocked)
       THEN [err |-> IF permission_first THEN "LayerNotWritable" ELSE "PermissionError",
             rec |-> <<>>]
       ELSE LET scoped == [record EXCEPT !.scope = Some(layer)]
                owned == IF layer \in {"project_agent", "user_agent"}
                            /\ ~Has(scoped, "agent_id")
                         THEN [scoped EXCEPT !.agent_id = Some(agent_id)]
                         ELSE scoped
                updated ==
                   IF layer \in redacted_layers
                   THEN [owned EXCEPT
                           !.content = IF Has(owned, "content")
                                       THEN Some(apply_redaction_rules(@[1],
                                                    pol.redaction_rules))
                                       ELSE @,
                           !.tags = IF Has(owned, "tags")
                                    THEN Some([i \in 1..Len(@[1]) |->
                                           apply_redaction_rules(@[1][i], pol.redaction_rules)])
                                    ELSE @]
                   ELSE owned
                v == validate_record(updated, 0)
            IN IF v.warning # NoWarning
               THEN [err |-> "ValidationError", rec |-> <<>>]
               ELSE [err |-> "none", rec |-> v.record[1]]

\* variant: the permission check comes before the write_layers check
_prepare_record_permission_first(pol, agent_id, layer, record) ==
    PrepareVariant(pol, agent_id, layer, record, TRUE, {"project_global", "user_global"})

\* variant: the records of every layer are redacted
_prepare_record_redact_all(pol, agent_id, layer, record) ==
    PrepareVariant(pol, agent_id, layer, record, FALSE, ALLOWED_LAYERS)

_prepare_record(pol, agent_id, layer, record) ==
    IF layer \notin Range(pol.write_layers)
    THEN [err |-> "LayerNotWritable", rec |-> <<>>]
    ELSE IF ~should_allow_layer_write(layer, pol)
    THEN [err |-> "PermissionError", rec |-> <<>>]
    ELSE LET scoped == [record EXCEPT !.scope = Some(layer)]
             owned == IF layer \in {"project_agent", "user_agent"} /\ ~Has(scoped, "agent_id")
                      THEN [scoped EXCEPT !.agent_id = Some(agent_id)]
                      ELSE scoped
             rules == pol.redaction_rules
             updated ==
                IF layer \in {"project_global", "user_global"}
                THEN [owned EXCEPT
                        !.content = IF Has(owned, "content")
                                    THEN Some(apply_redaction_rules(@[1], rules)) ELSE @,
                        !.tags = IF Has(owned, "tags")
                                 THEN Some([i \in 1..Len(@[1]) |->
                                              apply_redaction_rules(@[1][i], rules)])
                                 ELSE @]
                ELSE owned
             v == validate_record(updated, 0)
         IN IF v.warning # NoWarning
            THEN [err |-> "ValidationError", rec |-> <<>>]
            ELSE [err |-> "none", rec |-> v.record[1]]

\* _prepare_record applied to one layer and one record of the bounded input
\* sets, by the Store of w; the arguments and the result are kept
PrepareRecord(w) ==
    /\ probe = NoProbe
    /\ \E layer \in ALLOWED_LAYERS, record \in ProbeRecords :
         LET prep == _prepare_record(policy, agent[w], layer, record)
         IN probe' = [layer |-> layer, record |-> record, err |-> prep.err,
                      rec |-> prep.rec]
    /\ UNCHANGED <<adapter, mig, policy, agent, dirs, exists, files, locks, pc, cur, view, outcome,
                   ncalls, nwritten, acked, gstart, cli, durable>>

\* target.parent.mkdir(parents=True, exist_ok=True)
mkdir_parents(ds, d) == ds \cup Ancestors(d)

\* a part of json.dumps(validated) + "\n" as written by w
Chunk(part, obj, w, call) == [part |-> part, obj |-> obj, by |-> w, call |-> call]

\* variant: the file is opened with mode "w"
AppendChunk_truncating(chunks, chunk) == <<chunk>>

\* target.open("a") and a write: the bytes go to the end of the file.  The
\* rest of a payload that lands right behind its first part makes the same
\* bytes as the whole payload written at once.
AppendChunk(chunks, chunk) ==
    IF /\ chunk.part = "tail" /\ chunks # <<>>
       /\ chunks[Len(chunks)].part = "head"
       /\ chunks[Len(chunks)].by = chunk.by
       /\ chunks[Len(chunks)].obj = chunk.obj
    THEN [chunks EXCEPT ![Len(chunks)] = [chunk EXCEPT !.part = "full"]]
    ELSE Append(chunks, chunk)

Raised(w, err, layer) ==
    [status |-> "error", err |-> err, layer |-> layer, id |-> ""]

\* variant: the sentinel is opened without O_EXCL
CanCreateLock_always(lks, target) == TRUE

\* os.open(lock_path, O_CREAT | O_EXCL | O_WRONLY) succeeds
CanCreateLock(lks, target) == target \notin lks

\* variant: _prepare_record is called inside `with self._file_lock(target)`
CallFails_inside_lock(w) ==
    /\ pc[w] = "idle"
    /\ ncalls < MaxCalls
    /\ ncalls' = ncalls + 1
    /\ \E layer \in LayerArgs, record \in InputRecords :
         IF layer \notin DOMAIN _paths(w)
         THEN /\ outcome' = Raised(w, "UnknownLayer", layer)
              /\ dirs' = dirs
         ELSE LET prep == _prepare_record(policy, agent[w], layer, record)
              IN /\ prep.err # "none"
                 /\ CanCreateLock(locks, _paths(w)[layer])
                 /\ dirs' = mkdir_parents(dirs, Parent(_paths(w)[layer]))
                 /\ outcome' = Raised(w, prep.err, layer)
    /\ UNCHANGED <<adapter, mig, durable, probe, policy, agent, cli, exists, files, locks, pc, cur, view, nwritten,
                   acked, gstart>>

\* append_entry raises before it reaches the lock: the layer is unknown, or
\* (after mkdir) _prepare_record raises
CallFails(w) ==
    /\ pc[w] = "idle"
    /\ ncalls < MaxCalls
    /\ ncalls' = ncalls + 1
    /\ \E layer \in LayerArgs, record \in InputRecords :
         IF layer \notin DOMAIN _paths(w)
         THEN /\ outcome' = Raised(w, "UnknownLayer", layer)
              /\ dirs' = dirs
         ELSE LET prep == _prepare_record(policy, agent[w], layer, record)
              IN /\ prep.err # "none"
                 /\ dirs' = mkdir_parents(dirs, Parent(_paths(w)[layer]))
                 /\ outcome' = Raised(w, prep.err, layer)
    /\ UNCHANGED <<adapter, mig, durable, probe, policy, agent, cli, exists, files, locks, pc, cur, view, nwritten,
                   acked, gstart>>

\* append_entry up to the lock: the layer check, mkdir and _prepare_record pass
Call(w) ==
    /\ pc[w] = "idle"
    /\ ncalls < MaxCalls
    /\ ncalls' = ncalls + 1
    /\ \E layer \in LayerArgs \cap DOMAIN _paths(w), record \in InputRecords :
         LET target == _paths(w)[layer]
             prep == _prepare_record(policy, agent[w], layer, record)
         IN /\ prep.err = "none"
            /\ dirs' = mkdir_parents(dirs, Parent(target))
            /\ pc' = [pc EXCEPT ![w] = "locking"]
            /\ cur' = [cur EXCEPT ![w] = [layer |-> layer, target |-> target,
                                          payload |-> prep.rec, idx |-> 0]]
    /\ outcome' = NoOutcome
    /\ UNCHANGED <<adapter, mig, durable, probe, policy, agent, cli, exists, files, locks, view, nwritten, acked, gstart>>

Acquire(w) ==
    /\ pc[w] = "locking"
    /\ CanCreateLock(locks, cur[w].target)
    /\ locks' = locks \cup {cur[w].target}
    /\ pc' = [pc EXCEPT ![w] = "locked"]
    /\ outcome' = NoOutcome
    /\ UNCHANGED <<adapter, mig, durable, probe, policy, agent, cli, dirs, exists, files, cur, view, ncalls, nwritten, acked, gstart>>

\* variant: the acquisition loop sits inside the try/finally that unlinks
Timeout_unlinks(w) ==
    /\ pc[w] = "locking"
    /\ ~CanCreateLock(locks, cur[w].target)
    /\ locks' = locks \ {cur[w].target}
    /\ outcome' = Raised(w, "TimeoutError", cur[w].layer)
    /\ pc' = [pc EXCEPT ![w] = "idle"]
    /\ cur' = [cur EXCEPT ![w] = NoCall]
    /\ UNCHANGED <<adapter, mig, durable, probe, policy, agent, cli, dirs, exists, files, view, ncalls, nwritten,
                   acked, gstart>>

\* variant: when the time is up the loop is left with break
Timeout_breaks(w) ==
    /\ pc[w] = "locking"
    /\ ~CanCreateLock(locks, cur[w].target)
    /\ pc' = [pc EXCEPT ![w] = "locked"]
    /\ outcome' = NoOutcome
    /\ UNCHANGED <<adapter, mig, durable, probe, policy, agent, cli, dirs, exists, files, locks, cur, view, ncalls,
                   nwritten, acked, gstart>>

\* variant: the loop has no deadline
Timeout_never(w) == FALSE /\ UNCHANGED vars

\* variant: the deadline is looked at before the sentinel is tried
Timeout_spurious(w) ==
    /\ pc[w] = "locking"
    /\ outcome' = Raised(w, "TimeoutError", cur[w].layer)
    /\ pc' = [pc EXCEPT ![w] = "idle"]
    /\ cur' = [cur EXCEPT ![w] = NoCall]
    /\ UNCHANGED <<adapter, mig, durable, probe, policy, agent, cli, dirs, exists, files, locks, view, ncalls,
                   nwritten, acked, gstart>>

\* the sentinel exists and lock_timeout_seconds have passed: TimeoutError
Timeout(w) ==
    /\ pc[w] = "locking"
    /\ ~CanCreateLock(locks, cur[w].target)
    /\ outcome' = Raised(w, "TimeoutError", cur[w].layer)
    /\ pc' = [pc EXCEPT ![w] = "idle"]
    /\ cur' = [cur EXCEPT ![w] = NoCall]
    /\ UNCHANGED <<adapter, mig, durable, probe, policy, agent, cli, dirs, exists, files, locks, view, ncalls, nwritten, acked, gstart>>

\* the payload reaches the file in one write
WriteFull(w) ==
    /\ pc[w] = "locked"
    /\ exists' = exists \cup {cur[w].target}
    /\ files' = [files EXCEPT ![cur[w].target] =
                    AppendChunk(@, Chunk("full", cur[w].payload, w, nwritten + 1))]
    /\ nwritten' = nwritten + 1
    /\ pc' = [pc EXCEPT ![w] = "written"]
    /\ outcome' = NoOutcome
    /\ UNCHANGED <<adapter, mig, durable, probe, policy, agent, cli, dirs, locks, cur, view, ncalls, acked, gstart>>

\* the payload reaches the file in two writes (a short write)
WriteHead(w) ==
    /\ pc[w] = "locked"
    /\ exists' = exists \cup {cur[w].target}
    /\ files' = [files EXCEPT ![cur[w].target] =
                    AppendChunk(@, Chunk("head", cur[w].payload, w, 0))]
    /\ pc' = [pc EXCEPT ![w] = "partial"]
    /\ outcome' = NoOutcome
    /\ UNCHANGED <<adapter, mig, durable, probe, policy, agent, cli, dirs, locks, cur, view, ncalls, nwritten, acked, gstart>>

WriteTail(w) ==
    /\ pc[w] = "partial"
    /\ files' = [files EXCEPT ![cur[w].target] =
                    AppendChunk(@, Chunk("tail", cur[w].payload, w, nwritten + 1))]
    /\ nwritten' = nwritten + 1
    /\ pc' = [pc EXCEPT ![w] = "written"]
    /\ outcome' = NoOutcome
    /\ UNCHANGED <<adapter, mig, durable, probe, policy, agent, cli, dirs, exists, locks, cur, view, ncalls, acked, gstart>>

\* the serial number of the write that w has completed
OwnSerial(w) ==
    LET chunks == files[cur[w].target]
        mine == {i \in 1..Len(chunks) : chunks[i].by = w /\ chunks[i].call > 0}
    IN IF mine = {} THEN 0
       ELSE chunks[CHOOSE i \in mine : \A j \in mine : j <= i].call

\* variant: os.fsync returns without the data having reached the device
Fsync_skipped(w) ==
    /\ pc[w] = "written"
    /\ pc' = [pc EXCEPT ![w] = "synced"]
    /\ outcome' = NoOutcome
    /\ UNCHANGED <<adapter, mig, durable, probe, policy, agent, cli, dirs, exists, files, locks, cur, view,
                   ncalls, nwritten, acked, gstart>>

\* os.fsync(handle.fileno()): what the file holds is on the storage device
Fsync(w) ==
    /\ pc[w] = "written"
    /\ durable' = [durable EXCEPT ![cur[w].target] = files[cur[w].target]]
    /\ pc' = [pc EXCEPT ![w] = "synced"]
    /\ outcome' = NoOutcome
    /\ UNCHANGED <<adapter, mig, probe, policy, agent, cli, dirs, exists, files, locks, cur, view, ncalls,
                   nwritten, acked, gstart>>

\* variant: the with block is left without the unlink
Release_keeps_sentinel(w) ==
    /\ pc[w] = "synced"
    /\ outcome' = [status |-> "ok", err |-> "", layer |-> cur[w].layer,
                   id |-> cur[w].payload.id[1]]
    /\ acked' = acked \cup {[call |-> OwnSerial(w), by |-> w, layer |-> cur[w].layer,
                             path |-> cur[w].target, rec |-> cur[w].payload]}
    /\ pc' = [pc EXCEPT ![w] = "idle"]
    /\ cur' = [cur EXCEPT ![w] = NoCall]
    /\ UNCHANGED <<adapter, mig, durable, probe, policy, agent, cli, dirs, exists, files, locks,
                   view, ncalls, nwritten, gstart>>

\* lock_path.unlink(missing_ok=True) and return str(validated["id"])
Release(w) ==
    /\ pc[w] = "synced"
    /\ locks' = locks \ {cur[w].target}
    /\ outcome' = [status |-> "ok", err |-> "", layer |-> cur[w].layer,
                   id |-> cur[w].payload.id[1]]
    /\ acked' = acked \cup {[call |-> OwnSerial(w), by |-> w, layer |-> cur[w].layer,
                             path |-> cur[w].target, rec |-> cur[w].payload]}
    /\ pc' = [pc EXCEPT ![w] = "idle"]
    /\ cur' = [cur EXCEPT ![w] = NoCall]
    /\ UNCHANGED <<adapter, mig, durable, probe, policy, agent, cli, dirs, exists, files, view, ncalls, nwritten, gstart>>

\* target.open, handle.write, handle.flush or os.fsync raises OSError (the
\* disk is full, the file cannot be opened): the finally block of
\* _file_lock unlinks the sentinel and append_entry raises; what was
\* written so far stays in the file
WriteError(w) ==
    /\ pc[w] \in {"locked", "partial", "written"}
    /\ locks' = locks \ {cur[w].target}
    /\ outcome' = Raised(w, "OSError", cur[w].layer)
    /\ pc' = [pc EXCEPT ![w] = "idle"]
    /\ cur' = [cur EXCEPT ![w] = NoCall]
    /\ UNCHANGED <<adapter, mig, durable, probe, policy, agent, cli, dirs, exists, files, view,
                   ncalls, nwritten, acked, gstart>>

\* variant: the sentinel goes away with the process that created it
Crash_releases(w) ==
    /\ pc[w] \in {"locked", "partial", "written", "synced"}
    /\ pc' = [pc EXCEPT ![w] = "crashed"]
    /\ locks' = locks \ {cur[w].target}
    /\ outcome' = NoOutcome
    /\ UNCHANGED <<adapter, mig, durable, probe, policy, agent, cli, dirs, exists, files, cur, view, ncalls,
                   nwritten, acked, gstart>>

\* the process of w dies between os.open of the sentinel and its unlink: the
\* finally block does not run, the sentinel and what was written stay
Crash(w) ==
    /\ pc[w] \in {"locked", "partial", "written", "synced"}
    /\ pc' = [pc EXCEPT ![w] = "crashed"]
    /\ outcome' = NoOutcome
    /\ UNCHANGED <<adapter, mig, durable, probe, policy, agent, cli, dirs, exists, files, locks, cur, view, ncalls,
                   nwritten, acked, gstart>>

\* The machine loses power and comes up again: every process has ended; of
\* each file either what was synced or all that was written is on the device;
\* a sentinel (created without a sync) is there afterwards or is not.
\* No call is followed after the restart.
PowerLoss ==
    /\ \E w \in Writers : pc[w] # "idle"
    /\ \E kept \in SUBSET {p \in AllPaths : files[p] # durable[p]}, lks \in SUBSET locks :
         /\ files' = [p \in AllPaths |-> IF p \in kept THEN files[p] ELSE durable[p]]
         /\ durable' = files'
         /\ exists' = {p \in exists : files'[p] # <<>>}
         /\ locks' = lks
    /\ pc' = [w \in Writers |-> "idle"]
    /\ cur' = [w \in Writers |-> NoCall]
    /\ view' = [w \in Writers |-> <<>>]
    /\ gstart' = [w \in Writers |-> 0]
    /\ outcome' = NoOutcome
    /\ ncalls' = MaxCalls
    /\ UNCHANGED <<adapter, mig, probe, policy, agent, cli, dirs, nwritten, acked>>

\* build_retrieval_plan raises ValueError("Unknown read layer")
UnknownReadLayer(pol) ==
    \E i \in 1..Len(pol.read_layers) : pol.read_layers[i] \notin ALLOWED_LAYERS

\* get_all_records raises while it builds the plan
GetFails(w) ==
    /\ pc[w] = "idle"
    /\ ncalls < MaxCalls
    /\ UnknownReadLayer(policy)
    /\ ncalls' = ncalls + 1
    /\ outcome' = Raised(w, "UnknownReadLayer", "")
    /\ UNCHANGED <<adapter, mig, durable, probe, policy, agent, cli, dirs, exists, files, locks, pc, cur,
                   view, nwritten, acked, gstart>>

\* get_all_records: the plan is built, then one layer is read per step
GetStart(w) ==
    /\ pc[w] = "idle"
    /\ ncalls < MaxCalls
    /\ ~UnknownReadLayer(policy)
    /\ ncalls' = ncalls + 1
    /\ pc' = [pc EXCEPT ![w] = "reading"]
    /\ cur' = [cur EXCEPT ![w] = [NoCall EXCEPT !.idx = 1]]
    /\ view' = [view EXCEPT ![w] = <<>>]
    /\ gstart' = [gstart EXCEPT ![w] = nwritten]
    /\ outcome' = NoOutcome
    /\ UNCHANGED <<adapter, mig, durable, probe, policy, agent, cli, dirs, exists, files, locks, nwritten, acked>>

\* variant: the records of a layer are not reversed
LayerRecords_oldest_first(entry, loaded) ==
    [i \in 1..Len(loaded.records) |->
          [rec |-> loaded.records[i].rec, call |-> loaded.records[i].call,
           by |-> loaded.records[i].by, source_layer |-> entry.layer,
           source_path |-> entry.path]]

\* variant: the newest record of a layer is left out
LayerRecords_skip_newest(entry, loaded) ==
    LET newest_first == Reverse(loaded.records)
    IN [i \in 1..(Len(newest_first) - 1) |->
          [rec |-> newest_first[i + 1].rec, call |-> newest_first[i + 1].call,
           by |-> newest_first[i + 1].by, source_layer |-> entry.layer,
           source_path |-> entry.path]]

\* the records of one layer, newest first, with source_layer and source_path
LayerRecords(entry, loaded) ==
    LET newest_first == Reverse(loaded.records)
    IN [i \in 1..Len(newest_first) |->
          [rec |-> newest_first[i].rec, call |-> newest_first[i].call,
           by |-> newest_first[i].by, source_layer |-> entry.layer, source_path |-> entry.path]]

\* variant: a layer is read only while its sentinel does not exist
GetRead_waits_for_lock(w) ==
    /\ pc[w] = "reading"
    /\ build_retrieval_plan(policy, agent[w])[cur[w].idx].path \notin locks
    /\ \E plan \in {build_retrieval_plan(policy, agent[w])} :
       \E entry \in {plan[cur[w].idx]} :
       \E loaded \in {load_jsonl_records(entry.path \in exists, files[entry.path])} :
          IF loaded.raised # ""
          THEN /\ view' = [view EXCEPT ![w] = <<>>]
               /\ pc' = [pc EXCEPT ![w] = "idle"]
               /\ cur' = [cur EXCEPT ![w] = NoCall]
               /\ outcome' = Raised(w, loaded.raised, entry.layer)
          ELSE /\ view' = [view EXCEPT ![w] = @ \o LayerRecords(entry, loaded)]
               /\ IF cur[w].idx = Len(plan)
                  THEN /\ pc' = [pc EXCEPT ![w] = "gdone"]
                       /\ cur' = cur
                  ELSE /\ pc' = pc
                       /\ cur' = [cur EXCEPT ![w].idx = @ + 1]
               /\ outcome' = NoOutcome
    /\ UNCHANGED <<adapter, mig, durable, probe, policy, agent, cli, dirs, exists, files, locks, ncalls,
                   nwritten, acked, gstart>>

GetRead(w) ==
    /\ pc[w] = "reading"
    /\ \E plan \in {build_retrieval_plan(policy, agent[w])} :
       \E entry \in {plan[cur[w].idx]} :
       \E loaded \in {load_jsonl_records(entry.path \in exists, files[entry.path])} :
          IF loaded.raised # ""
          THEN /\ view' = [view EXCEPT ![w] = <<>>]
               /\ pc' = [pc EXCEPT ![w] = "idle"]
               /\ cur' = [cur EXCEPT ![w] = NoCall]
               /\ outcome' = Raised(w, loaded.raised, entry.layer)
          ELSE /\ view' = [view EXCEPT ![w] = @ \o LayerRecords(entry, loaded)]
               /\ IF cur[w].idx = Len(plan)
                  THEN /\ pc' = [pc EXCEPT ![w] = "gdone"]
                       /\ cur' = cur
                  ELSE /\ pc' = pc
                       /\ cur' = [cur EXCEPT ![w].idx = @ + 1]
               /\ outcome' = NoOutcome
    /\ UNCHANGED <<adapter, mig, durable, probe, policy, agent, cli, dirs, exists, files, locks, ncalls, nwritten, acked, gstart>>

\* what get_all_records hands to its caller: all_records, a list of records;
\* the warnings of load_jsonl_records are bound to _warnings and dropped
Returned(w) == [records |-> view[w], warnings |-> <<>>]

\* return all_records
GetReturn(w) ==
    /\ pc[w] = "gdone"
    /\ pc' = [pc EXCEPT ![w] = "idle"]
    /\ cur' = [cur EXCEPT ![w] = NoCall]
    /\ view' = [view EXCEPT ![w] = <<>>]
    /\ gstart' = [gstart EXCEPT ![w] = 0]
    /\ outcome' = NoOutcome
    /\ UNCHANGED <<adapter, mig, durable, probe, policy, agent, cli, dirs, exists, files, locks, ncalls, nwritten, acked>>

----------------------------------------------------------------------------
(* layered_adapter.py *)

RECURSIVE FirstWithId(_, _, _)
FirstWithId(records, chunk_id, i) ==
    IF i > Len(records) THEN 0
    ELSE IF records[i].rec.id = Some(chunk_id) THEN i
    ELSE FirstWithId(records, chunk_id, i + 1)

_record_to_chunk(record) ==
    [id |-> IF Has(record, "id") THEN record.id[1] ELSE "",
     content |-> IF Has(record, "content") THEN record.content[1] ELSE <<>>,
     type |-> IF Has(record, "entry_type") THEN record.entry_type[1] ELSE "note",
     created |-> IF Has(record, "created_at") THEN record.created_at[1] ELSE "",
     confidence |-> IF Has(record, "confidence") THEN record.confidence[1] ELSE "0.7",
     source |-> IF Has(record, "source") THEN record.source[1] ELSE "unknown",
     tags |-> IF Has(record, "tags") THEN record.tags[1] ELSE <<>>]

RECURSIVE LastWithId(_, _, _)
LastWithId(records, chunk_id, i) ==
    IF i = 0 THEN 0
    ELSE IF records[i].rec.id = Some(chunk_id) THEN i
    ELSE LastWithId(records, chunk_id, i - 1)

\* variant: the last match is returned instead of the first
get_chunk_last_match(records, chunk_id) ==
    LET i == LastWithId(records, chunk_id, Len(records))
    IN IF i = 0 THEN <<>> ELSE <<_record_to_chunk(records[i].rec)>>

\* get_chunk on the records that get_all_records returned: <<>> is None
get_chunk(records, chunk_id) ==
    LET i == FirstWithId(records, chunk_id, 1)
    IN IF i = 0 THEN <<>> ELSE <<_record_to_chunk(records[i].rec)>>

\* variant: no stored chunk is listed
list_chunks_none(records) == <<>>

RECURSIVE ListFrom(_, _, _)
ListFrom(records, i, seen) ==
    IF i > Len(records) THEN <<>>
    ELSE LET rid == IF Has(records[i].rec, "id") THEN records[i].rec.id[1] ELSE NULL
         IN IF rid \in {NULL, ""} \/ rid \in seen
            THEN ListFrom(records, i + 1, seen)
            ELSE <<rid>> \o ListFrom(records, i + 1, seen \cup {rid})

\* list_chunks() without filters on the records that get_all_records
\* returned: the ids, each once, in the order of their first record
list_chunks(records) == ListFrom(records, 1, {})

\* get_all_records of a Store, run without interruption: the records of the
\* plan's layers in plan order, or the exception of load_jsonl_records
RECURSIVE ReadPlan(_, _)
ReadPlan(plan, i) ==
    IF i > Len(plan) THEN [records |-> <<>>, raised |-> ""]
    ELSE LET loaded == load_jsonl_records(plan[i].path \in exists, files[plan[i].path])
         IN IF loaded.raised # ""
            THEN [records |-> <<>>, raised |-> loaded.raised]
            ELSE LET rest == ReadPlan(plan, i + 1)
                 IN IF rest.raised # "" THEN rest
                    ELSE [records |-> LayerRecords(plan[i], loaded) \o rest.records,
                          raised |-> ""]

get_all_records(pol, agent_id) == ReadPlan(build_retrieval_plan(pol, agent_id), 1)

\* chunk.to_dict() with project_id added: the record save_chunk appends
ChunkRecord(chunk) ==
    [BaseRecord(chunk.id, chunk.content) EXCEPT
        !.entry_type = Some(chunk.type), !.created_at = Some(chunk.created),
        !.tags = Some(chunk.tags), !.confidence = Some(chunk.confidence)]

\* the chunks handed to save_chunk: a new version of the chunk r1, with or
\* without a secret in its content
NewChunk(content) ==
    [id |-> "r1", content |-> content, type |-> "fact", created |-> "d2",
     confidence |-> "0.9", source |-> "unknown", tags |-> <<>>]

ChunksToSave == {NewChunk(<<"new">>), NewChunk(Secret)}

\* save_chunk(chunk): append_entry(default_write_layer, record), run without
\* interruption (mkdir, _prepare_record, lock, write, flush, fsync, unlock)
SaveChunk ==
    /\ adapter.pc = "new"
    /\ \E chunk \in ChunksToSave :
         LET layer == adapter.default_write_layer
             target == resolve_all_layer_paths(policy, agent["w1"])[layer]
             prep == _prepare_record(policy, agent["w1"], layer, ChunkRecord(chunk))
         IN /\ dirs' = mkdir_parents(dirs, Parent(target))
            /\ IF prep.err # "none"
               THEN /\ adapter' = [adapter EXCEPT !.pc = "raised"]
                    /\ outcome' = Raised("w1", prep.err, layer)
                    /\ UNCHANGED <<files, durable, exists, nwritten>>
               ELSE /\ files' = [files EXCEPT ![target] =
                                    AppendChunk(@, Chunk("full", prep.rec, "w1", nwritten + 1))]
                    /\ durable' = [durable EXCEPT ![target] = files'[target]]
                    /\ exists' = exists \cup {target}
                    /\ nwritten' = nwritten + 1
                    /\ adapter' = [adapter EXCEPT !.pc = "saved", !.saved = <<chunk>>]
                    /\ outcome' = [status |-> "ok", err |-> "", layer |-> layer,
                                   id |-> prep.rec.id[1]]
    /\ UNCHANGED <<mig, probe, policy, agent, cli, locks, pc, cur, view, ncalls, acked, gstart>>

\* get_chunk(chunk_id) for the id of the chunk that was saved
GetChunk ==
    /\ adapter.pc = "saved"
    /\ \E all \in {get_all_records(policy, agent["w1"])} :
         IF all.raised # ""
         THEN /\ adapter' = [adapter EXCEPT !.pc = "raised"]
              /\ outcome' = Raised("w1", all.raised, "")
         ELSE /\ adapter' = [adapter EXCEPT
                                !.pc = "got",
                                !.got = get_chunk(all.records, adapter.saved[1].id)]
              /\ outcome' = NoOutcome
    /\ UNCHANGED <<mig, durable, probe, policy, agent, cli, dirs, exists, files, locks, pc,
                   cur, view, ncalls, nwritten, acked, gstart>>

----------------------------------------------------------------------------
(* migration_tool.py *)

\* policy = MemoryPolicy(project_root=cwd), with dest_layer added to
\* write_layers when it is not there
MigPolicy(dest_layer) ==
    IF dest_layer \in Range(PolDefault.write_layers) THEN PolDefault
    ELSE [PolDefault EXCEPT !.write_layers = Append(@, dest_layer)]

\* the content of a chunk-*.json file: an object with or without id,
\* content, type and metadata.created_at; text that is no JSON; a JSON list
LegacyChunk(id, content) ==
    [kind |-> "chunk", id |-> id, content |-> content, type |-> Some("fact"),
     created_at |-> Some("d1")]

LegacyKinds ==
    {LegacyChunk(Some("c1"), Some(Plain)),
     LegacyChunk(Some("c2"), Some(Secret)),
     LegacyChunk(Some("c1"), Some(<<"bye">>)),
     [LegacyChunk(Some("c3"), Some(Plain)) EXCEPT !.type = Missing, !.created_at = Missing],
     LegacyChunk(Missing, Some(Plain)),
     LegacyChunk(Some("c4"), Missing),
     [LegacyChunk(Missing, Missing) EXCEPT !.kind = "junk"],
     [LegacyChunk(Missing, Missing) EXCEPT !.kind = "list"]}

\* the files that src_dir.rglob("chunk-*.json") finds
LegacyDirs == UNION {[1..n -> LegacyKinds] : n \in 0..MaxLegacy}

DestLayers == {"project_agent", "project_global", "user_global", "bogus_layer"}

\* the record built from a legacy chunk (a content or id that is None is
\* an absent one to validate_record; utcnow is the day d2)
LegacyRecord(data, default_scope) ==
    [BaseRecord("", <<>>) EXCEPT
        !.id = IF Has(data, "id") THEN data.id ELSE Some(NULL),
        !.content = data.content,
        !.entry_type = IF Has(data, "type") THEN data.type ELSE Some("note"),
        !.scope = Some(default_scope),
        !.tags = Some(<<>>),
        !.created_at = IF Has(data, "created_at") THEN data.created_at ELSE Some("d2")]

\* what the body of the loop does with one file: "error" (an exception is
\* caught), "skipped" (the id is in existing_chunks) or "append" with the
\* record that append_entry stores
MigrateOne(data, existing, dest_layer) ==
    IF data.kind # "chunk" THEN [what |-> "error", rec |-> <<>>]
    ELSE IF Has(data, "id") /\ data.id[1] \in existing THEN [what |-> "skipped", rec |-> <<>>]
    ELSE IF dest_layer \notin ALLOWED_LAYERS THEN [what |-> "error", rec |-> <<>>]
    ELSE LET prep == _prepare_record(policy, MigAgent, dest_layer,
                                     LegacyRecord(data, "project_global"))
         IN IF prep.err # "none" THEN [what |-> "error", rec |-> <<>>]
            ELSE IF ~CanCreateLock(locks, resolve_all_layer_paths(policy, MigAgent)[dest_layer])
            THEN [what |-> "error", rec |-> <<>>]
            ELSE [what |-> "append", rec |-> prep.rec]

\* migrate_chunks up to the loop: the Store, the adapter, existing_chunks
MigrateStart ==
    /\ mig.pc = "idle"
    /\ mig.run < 2
    /\ \E all \in {get_all_records(policy, MigAgent)} :
         IF all.raised # ""
         THEN /\ mig' = [mig EXCEPT !.run = @ + 1,
                                    !.after = Append(@, [files |-> files, chunks |-> <<>>])]
              /\ outcome' = Raised("mig", all.raised, mig.dest_layer)
         ELSE /\ mig' = [mig EXCEPT !.pc = "files", !.run = @ + 1, !.idx = 1,
                                    !.existing = Range(list_chunks(all.records)),
                                    !.count = 0, !.skipped = 0, !.errors = 0]
              /\ outcome' = NoOutcome
    /\ UNCHANGED <<adapter, durable, probe, policy, agent, cli, dirs, exists, files, locks,
                   pc, cur, view, ncalls, nwritten, acked, gstart>>

\* one pass of the loop over the files: the chunk is skipped, or appended
\* with append_entry (mkdir, lock, write, flush, fsync, unlock), or an
\* exception is caught and counted
MigrateFile ==
    /\ mig.pc = "files"
    /\ mig.idx <= Len(mig.src)
    /\ \E one \in {MigrateOne(mig.src[mig.idx], mig.existing, mig.dest_layer)} :
         LET known == mig.dest_layer \in ALLOWED_LAYERS
             target == IF known
                       THEN resolve_all_layer_paths(policy, MigAgent)[mig.dest_layer]
                       ELSE <<>>
             tried == known /\ mig.src[mig.idx].kind = "chunk" /\ one.what # "skipped"
         IN /\ dirs' = IF tried THEN mkdir_parents(dirs, Parent(target)) ELSE dirs
            /\ IF one.what = "append"
               THEN /\ files' = [files EXCEPT ![target] =
                                    AppendChunk(@, Chunk("full", one.rec, "mig", nwritten + 1))]
                    /\ durable' = [durable EXCEPT ![target] = files'[target]]
                    /\ exists' = exists \cup {target}
                    /\ nwritten' = nwritten + 1
               ELSE UNCHANGED <<files, durable, exists, nwritten>>
            /\ mig' = [mig EXCEPT
                         !.idx = @ + 1,
                         !.count = IF one.what = "append" THEN @ + 1 ELSE @,
                         !.skipped = IF one.what = "skipped" THEN @ + 1 ELSE @,
                         !.errors = IF one.what = "error" THEN @ + 1 ELSE @]
    /\ outcome' = NoOutcome
    /\ UNCHANGED <<adapter, probe, policy, agent, cli, locks, pc, cur, view, ncalls, acked,
                   gstart>>

\* the loop is over: migrate_chunks prints its counts and returns
MigrateEnd ==
    /\ mig.pc = "files"
    /\ mig.idx > Len(mig.src)
    /\ \E all \in {get_all_records(policy, MigAgent)} :
         mig' = [mig EXCEPT !.pc = "idle",
                            !.after = Append(@, [files |-> files,
                                                 chunks |-> list_chunks(all.records)])]
    /\ outcome' = NoOutcome
    /\ UNCHANGED <<adapter, durable, probe, policy, agent, cli, dirs, exists, files, locks,
                   pc, cur, view, ncalls, nwritten, acked, gstart>>

----------------------------------------------------------------------------
(* memory_cli.py: the prune command *)

\* the dates of the model, as days
Cutoffs == {2}

\* datetime.fromisoformat: 0 stands for ValueError
DayOf(created_raw) ==
    CASE created_raw = "d1" -> 1
      [] created_raw = "d2" -> 2
      [] OTHER -> 0

\* variant: the loader does not look at the write layers
PolicyLoads_unchecked(pol) == TRUE

\* variant: the names in a layer list are not looked at
_ensure_layer_list_any(layers) == TRUE

\* _ensure_layer_list returns: no name of the list is unknown
_ensure_layer_list(layers) == \A i \in 1..Len(layers) : layers[i] \in ALLOWED_LAYERS

\* load_memory_policy accepts the configuration
PolicyLoads(pol) ==
    /\ _ensure_layer_list(pol.read_layers) /\ pol.read_layers # <<>>
    /\ _ensure_layer_list(pol.write_layers) /\ pol.write_layers # <<>>
    /\ ~(/\ ~pol.allow_user_global_write
         /\ \E i \in 1..Len(pol.write_layers) : pol.write_layers[i] \in USER_GLOBAL_LAYERS)

\* the line is retained
Retained(line, cutoff) ==
    LET parsed == json_loads(line)
    IN \/ ~parsed.ok
       \/ Falsy(parsed.obj, "created_at")
       \/ DayOf(parsed.obj.created_at[1]) = 0
       \/ ~(DayOf(parsed.obj.created_at[1]) < cutoff)

CliPaths == resolve_all_layer_paths(policy, CliAgent)

PruneStart ==
    /\ cli.pc = "idle"
    /\ ncalls < MaxCalls
    /\ PolicyLoads(policy)
    /\ ncalls' = ncalls + 1
    /\ \E cutoff \in Cutoffs :
         cli' = [CliIdle EXCEPT !.pc = "scan", !.idx = 1, !.cutoff = cutoff]
    /\ outcome' = NoOutcome
    /\ UNCHANGED <<adapter, mig, durable, probe, policy, agent, dirs, exists, files, locks, pc, cur, view, nwritten,
                   acked, gstart>>

\* the next layer of write_layers, or the end of the command
NextLayer(c) ==
    IF c.idx = Len(policy.write_layers)
    THEN CliIdle
    ELSE [CliIdle EXCEPT !.pc = "scan", !.idx = c.idx + 1, !.cutoff = c.cutoff]

\* record.get("created_at") on a decoded line that is no JSON object raises
\* AttributeError
PruneRaises(line) == json_loads(line).ok /\ ~IsDict(json_loads(line).obj)

\* one layer is read and filtered, without the lock; an exception ends the
\* command
PruneScan ==
    /\ cli.pc = "scan"
    /\ LET target == CliPaths[policy.write_layers[cli.idx]]
           lines == RawLines(files[target])
           retained == SelectSeq(lines, LAMBDA l : Retained(l, cli.cutoff))
       IN IF target \in exists /\ \E i \in 1..Len(lines) : PruneRaises(lines[i])
          THEN /\ cli' = CliIdle
               /\ outcome' = Raised("cli", "AttributeError", policy.write_layers[cli.idx])
          ELSE /\ IF target \notin exists \/ retained = lines
                  THEN cli' = NextLayer(cli)
                  ELSE cli' = [cli EXCEPT !.pc = "plock", !.target = target,
                                          !.retained = Flatten(retained)]
               /\ outcome' = NoOutcome
    /\ UNCHANGED <<adapter, mig, durable, probe, policy, agent, dirs, exists, files, locks, pc, cur, view, ncalls,
                   nwritten, acked, gstart>>

PruneAcquire ==
    /\ cli.pc = "plock"
    /\ CanCreateLock(locks, cli.target)
    /\ locks' = locks \cup {cli.target}
    /\ cli' = [cli EXCEPT !.pc = "pwrite"]
    /\ outcome' = NoOutcome
    /\ UNCHANGED <<adapter, mig, durable, probe, policy, agent, dirs, exists, files, pc, cur, view, ncalls, nwritten,
                   acked, gstart>>

\* TimeoutError ends the command
PruneTimeout ==
    /\ cli.pc = "plock"
    /\ ~CanCreateLock(locks, cli.target)
    /\ cli' = CliIdle
    /\ outcome' = NoOutcome
    /\ UNCHANGED <<adapter, mig, durable, probe, policy, agent, dirs, exists, files, locks, pc, cur, view, ncalls,
                   nwritten, acked, gstart>>

\* target.write_text("".join(retained))
PruneWrite ==
    /\ cli.pc = "pwrite"
    /\ files' = [files EXCEPT ![cli.target] = cli.retained]
    /\ cli' = [cli EXCEPT !.pc = "pwritten"]
    /\ outcome' = NoOutcome
    /\ UNCHANGED <<adapter, mig, durable, probe, policy, agent, dirs, exists, locks, pc, cur, view, ncalls, nwritten,
                   acked, gstart>>

PruneRelease ==
    /\ cli.pc = "pwritten"
    /\ locks' = locks \ {cli.target}
    /\ cli' = NextLayer(cli)
    /\ outcome' = NoOutcome
    /\ UNCHANGED <<adapter, mig, durable, probe, policy, agent, dirs, exists, files, pc, cur, view, ncalls, nwritten,
                   acked, gstart>>

----------------------------------------------------------------------------
(* Specifications *)

\* the operations of the Store
Next ==
    \E w \in Writers :
        \/ CallFails(w)
        \/ Call(w)
        \/ Acquire(w)
        \/ Timeout(w)
        \/ WriteFull(w)
        \/ WriteHead(w)
        \/ WriteTail(w)
        \/ Fsync(w)
        \/ Release(w)
        \/ GetStart(w)
        \/ GetRead(w)
        \/ GetReturn(w)

Spec == Init /\ [][Next]_vars

\* the writers of the Store together with the prune command
NextCli ==
    \/ \E w \in Writers :
        \/ Call(w)
        \/ Acquire(w)
        \/ Timeout(w)
        \/ WriteFull(w)
        \/ WriteHead(w)
        \/ WriteTail(w)
        \/ Fsync(w)
        \/ Release(w)
    \/ PruneStart
    \/ PruneScan
    \/ PruneAcquire
    \/ PruneTimeout
    \/ PruneWrite
    \/ PruneRelease

SpecCli == Init /\ [][NextCli]_vars

\* the appends and the death of a writer inside the lock
NextLock ==
    \E w \in Writers :
        \/ Call(w)
        \/ Acquire(w)
        \/ Timeout(w)
        \/ WriteFull(w)
        \/ WriteHead(w)
        \/ WriteTail(w)
        \/ Fsync(w)
        \/ Release(w)
        \/ Crash(w)

SpecLock == InitLock /\ [][NextLock]_vars

\* A running call keeps running: the polling loop of _file_lock either
\* creates the sentinel or, with the time up, raises; the write and the
\* release follow without waiting for anything.
SpecLockFair ==
    /\ SpecLock
    /\ \A w \in Writers :
          /\ WF_vars(Acquire(w) \/ Timeout(w))
          /\ WF_vars(WriteFull(w) \/ WriteHead(w))
          /\ WF_vars(WriteTail(w))
          /\ WF_vars(Fsync(w))
          /\ WF_vars(Release(w))

\* the appends and the reads, with the death of a writer and the loss of power
NextCrash ==
    \/ \E w \in Writers :
        \/ Call(w)
        \/ Acquire(w)
        \/ Timeout(w)
        \/ WriteFull(w)
        \/ WriteHead(w)
        \/ WriteTail(w)
        \/ Fsync(w)
        \/ Release(w)
        \/ Crash(w)
        \/ GetStart(w)
        \/ GetRead(w)
        \/ GetReturn(w)
    \/ PowerLoss

SpecCrash == InitCrash /\ [][NextCrash]_vars

\* A get_all_records call in progress keeps running: its loop reads one
\* layer after the other and returns.  Nothing is assumed about the writers.
SpecCrashFair ==
    /\ SpecCrash
    /\ \A w \in Writers : WF_vars(GetRead(w)) /\ WF_vars(GetReturn(w))

\* two Stores of two agents under a policy that blocks no layer or one
InitReject ==
    /\ policy \in {PolTest, PolUserBlocked}
    /\ agent = [w \in Writers |-> IF w = "w1" THEN AgentA ELSE AgentB]
    /\ dirs = {<<"proj">>, HomeDir}
    /\ exists = {}
    /\ files = [p \in AllPaths |-> <<>>]
    /\ locks = {}
    /\ pc = [w \in Writers |-> "idle"]
    /\ cur = [w \in Writers |-> NoCall]
    /\ view = [w \in Writers |-> <<>>]
    /\ outcome = NoOutcome
    /\ ncalls = 0
    /\ nwritten = 0
    /\ acked = {}
    /\ gstart = [w \in Writers |-> 0]
    /\ cli = CliIdle
    /\ probe = NoProbe
    /\ durable = [p \in AllPaths |-> <<>>]
    /\ mig = NoMig
    /\ adapter = NoAdapter

\* the appends, those that are rejected included, and the death of a writer
\* inside the lock
NextReject ==
    \E w \in Writers :
        \/ CallFails(w)
        \/ Call(w)
        \/ Acquire(w)
        \/ Timeout(w)
        \/ WriteFull(w)
        \/ WriteHead(w)
        \/ WriteTail(w)
        \/ Fsync(w)
        \/ Release(w)
        \/ Crash(w)

SpecReject == InitReject /\ [][NextReject]_vars

\* the appends of two Stores, no process dying
NextAppend ==
    \E w \in Writers :
        \/ Call(w)
        \/ Acquire(w)
        \/ Timeout(w)
        \/ WriteFull(w)
        \/ WriteHead(w)
        \/ WriteTail(w)
        \/ Fsync(w)
        \/ Release(w)

SpecAppend == InitCrash /\ [][NextAppend]_vars

\* A running call keeps running, as in SpecLockFair.
SpecAppendFair ==
    /\ SpecAppend
    /\ \A w \in Writers :
          /\ WF_vars(Acquire(w) \/ Timeout(w))
          /\ WF_vars(WriteFull(w) \/ WriteHead(w))
          /\ WF_vars(WriteTail(w))
          /\ WF_vars(Fsync(w))
          /\ WF_vars(Release(w))

\* resolve_all_layer_paths on its own
NextPaths == ResolveLayerPaths

SpecPaths == InitCrash /\ [][NextPaths]_vars

\* The lines of a file the prune command meets: an old and a recent record,
\* a record without created_at, one whose created_at is no date, text that
\* is no JSON, a blank line, a JSON value that is no object, and the first
\* part of a payload.
PruneLineKinds ==
    {Foreign("full", Normalize([GlobalRecord("r1") EXCEPT !.created_at = Some("d1")])),
     Foreign("full", Normalize(GlobalRecord("r2"))),
     Foreign("full", [GlobalRecord("r3") EXCEPT !.created_at = Missing]),
     Foreign("full", [GlobalRecord("r4") EXCEPT !.created_at = Some("yesterday")]),
     Foreign("junk", NonDict),
     Foreign("blank", NonDict),
     Foreign("full", NonDict),
     Foreign("head", GlobalRecord("r6"))}

PruneFiles == UNION {[1..n -> PruneLineKinds] : n \in 0..MaxLines}

\* the project-wide file before the prune command: absent, one old record,
\* or a recent and an old one
PruneGlobalFiles ==
    {<<>>,
     <<Foreign("full", Normalize([GlobalRecord("r7") EXCEPT !.created_at = Some("d1")]))>>,
     <<Foreign("full", Normalize(GlobalRecord("r8"))),
       Foreign("full", Normalize([GlobalRecord("r7") EXCEPT !.created_at = Some("d1")]))>>}

\* The prune command on its own: the files of the two write layers of
\* cli-operator hold lines of any kind; the contents before the command are
\* kept for comparison.
InitPrune ==
    /\ policy = PolTest
    /\ agent = [w \in Writers |-> IF w = "w1" THEN AgentA ELSE AgentB]
    /\ \E a \in PruneFiles, g \in PruneGlobalFiles :
         files = [p \in AllPaths |->
                    IF p = resolve_all_layer_paths(PolTest, CliAgent)["project_agent"] THEN a
                    ELSE IF p = resolve_all_layer_paths(PolTest, CliAgent)["project_global"]
                         THEN g
                    ELSE <<>>]
    /\ exists = {p \in AllPaths : files[p] # <<>>}
    /\ dirs = {<<"proj">>, HomeDir} \cup UNION {Ancestors(Parent(p)) : p \in exists}
    /\ locks = {}
    /\ pc = [w \in Writers |-> "idle"]
    /\ cur = [w \in Writers |-> NoCall]
    /\ view = [w \in Writers |-> <<>>]
    /\ outcome = NoOutcome
    /\ ncalls = 0
    /\ nwritten = 0
    /\ acked = {}
    /\ gstart = [w \in Writers |-> 0]
    /\ cli = CliIdle
    /\ probe = [fn |-> "prune", before |-> files]
    /\ durable = files
    /\ mig = NoMig
    /\ adapter = NoAdapter

NextPrune ==
    \/ PruneStart
    \/ PruneScan
    \/ PruneAcquire
    \/ PruneWrite
    \/ PruneRelease

SpecPrune == InitPrune /\ [][NextPrune]_vars

\* what the destination holds before the first run: nothing, a record of
\* the chunk c1 in the project-wide file, or one in the tool's own file
PreMigrated(id, layer) ==
    Foreign("full", Normalize([BaseRecord(id, Plain) EXCEPT
                                  !.scope = Some(layer),
                                  !.agent_id = IF layer = "project_agent"
                                               THEN Some(MigAgent) ELSE Missing]))

\* Two runs of migrate_chunks with the same source directory and
\* destination layer, nothing else running; a sentinel may have been left
\* on the project-wide file.
InitMigrate ==
    /\ \E src \in LegacyDirs, dest_layer \in DestLayers :
         /\ mig = [NoMig EXCEPT !.src = src, !.dest_layer = dest_layer]
         /\ policy = MigPolicy(dest_layer)
    /\ agent = [w \in Writers |-> IF w = "w1" THEN AgentA ELSE AgentB]
    /\ \E pre \in {"", "project_global", "project_agent"} :
         files = [p \in AllPaths |->
                    IF pre # "" /\ p = resolve_all_layer_paths(PolDefault, MigAgent)[pre]
                    THEN <<PreMigrated("c1", pre)>> ELSE <<>>]
    /\ exists = {p \in AllPaths : files[p] # <<>>}
    /\ dirs = {<<"proj">>, HomeDir} \cup UNION {Ancestors(Parent(p)) : p \in exists}
    /\ locks \in {{}, {resolve_all_layer_paths(PolDefault, MigAgent)["project_global"]}}
    /\ pc = [w \in Writers |-> "idle"]
    /\ cur = [w \in Writers |-> NoCall]
    /\ view = [w \in Writers |-> <<>>]
    /\ outcome = NoOutcome
    /\ ncalls = 0
    /\ nwritten = 0
    /\ acked = {}
    /\ gstart = [w \in Writers |-> 0]
    /\ cli = CliIdle
    /\ probe = NoProbe
    /\ durable = files
    /\ adapter = NoAdapter

NextMigrate == MigrateStart \/ MigrateFile \/ MigrateEnd

SpecMigrate == InitMigrate /\ [][NextMigrate]_vars

\* an older version of the chunk r1 as it is stored in a layer
OlderVersion(layer) ==
    Foreign("full", Normalize([BaseRecord("r1", <<"old">>) EXCEPT
                                  !.created_at = Some("d1"),
                                  !.scope = Some(layer),
                                  !.agent_id = IF layer \in AGENT_SCOPES
                                               THEN Some(AgentA) ELSE Missing]))

AdapterPolicies == {PolTest, PolReversed, PolUserOpen, PolAllLayers}

\* An adapter on the Store of agent-a, for every default_write_layer, with
\* an older version of the chunk in any of the four layers.
InitAdapter ==
    /\ policy \in AdapterPolicies
    /\ agent = [w \in Writers |-> IF w = "w1" THEN AgentA ELSE AgentB]
    /\ \E layer \in ALLOWED_LAYERS, prior \in SUBSET ALLOWED_LAYERS :
         /\ adapter = [pc |-> "new", default_write_layer |-> layer, prior |-> prior,
                       saved |-> <<>>, got |-> <<>>]
         /\ files = [p \in AllPaths |->
                       IF \E l \in prior : p = resolve_all_layer_paths(PolDefault, AgentA)[l]
                       THEN <<OlderVersion(CHOOSE l \in prior :
                                  p = resolve_all_layer_paths(PolDefault, AgentA)[l])>>
                       ELSE <<>>]
    /\ exists = {p \in AllPaths : files[p] # <<>>}
    /\ dirs = {<<"proj">>, HomeDir} \cup UNION {Ancestors(Parent(p)) : p \in exists}
    /\ locks = {}
    /\ pc = [w \in Writers |-> "idle"]
    /\ cur = [w \in Writers |-> NoCall]
    /\ view = [w \in Writers |-> <<>>]
    /\ outcome = NoOutcome
    /\ ncalls = 0
    /\ nwritten = 0
    /\ acked = {}
    /\ gstart = [w \in Writers |-> 0]
    /\ cli = CliIdle
    /\ probe = NoProbe
    /\ durable = files
    /\ mig = NoMig

NextAdapter == SaveChunk \/ GetChunk

SpecAdapter == InitAdapter /\ [][NextAdapter]_vars

\* the appends with their two ways out of the lock, a return and an
\* exception, and the death of a writer inside the lock
NextScope ==
    \E w \in Writers :
        \/ Call(w)
        \/ Acquire(w)
        \/ Timeout(w)
        \/ WriteFull(w)
        \/ WriteHead(w)
        \/ WriteTail(w)
        \/ Fsync(w)
        \/ Release(w)
        \/ WriteError(w)
        \/ Crash(w)

SpecScope == InitCrash /\ [][NextScope]_vars

\* the functions of memory_schema.py on their own
NextSchema == ValidateRecord \/ LoadJsonl

SpecSchema == InitSchema /\ [][NextSchema]_vars

\* the reads of the Store
NextLoad == \E w \in Writers : GetStart(w) \/ GetRead(w) \/ GetReturn(w)

SpecLoad == InitLoad /\ [][NextLoad]_vars

\* get_all_records under the three lists of read layers
SpecRead == InitRead /\ [][NextLoad]_vars

\* the operations of the Store, the second agent id being a plain name or
\* one with a ".." component
SpecUp == InitLock /\ [][Next]_vars

\* the operations of the Store, with the read that fails on its plan
NextConfig ==
    \E w \in Writers :
        \/ CallFails(w)
        \/ Call(w)
        \/ Acquire(w)
        \/ Timeout(w)
        \/ WriteFull(w)
        \/ WriteHead(w)
        \/ WriteTail(w)
        \/ Fsync(w)
        \/ Release(w)
        \/ GetStart(w)
        \/ GetFails(w)
        \/ GetRead(w)
        \/ GetReturn(w)

SpecConfig == InitConfig /\ [][NextConfig]_vars

\* _prepare_record on its own
NextPrepare == \E w \in Writers : PrepareRecord(w)

SpecPrepare == InitPrepare /\ [][NextPrepare]_vars

----------------------------------------------------------------------------
(* Properties *)

AppendInProgress(w) == pc[w] \in {"locking", "locked", "partial", "written", "synced"}
InSection(w) == pc[w] \in {"locked", "partial", "written", "synced"}
AckedTo(p) == {a \in acked : a.path = p}
ReadLayers == Range(policy.read_layers)

\* the newline-terminated lines of a file
Lines(chunks) ==
    SelectSeq(RawLines(chunks), LAMBDA l : l[Len(l)].part \in {"full", "tail"})

\* C1: once every append_entry call has returned, each layer file holds
\* exactly one line per call that returned an id, every line is a valid record,
\* the ids are those of the calls (distinct when the calls' ids are), and
\* load_jsonl_records yields as many records and no warning.
C1_Durability ==
    (\A w \in Writers : ~AppendInProgress(w)) =>
        \A p \in AllPaths :
            LET loaded == load_jsonl_records(p \in exists, files[p])
                n == Cardinality(AckedTo(p))
            IN /\ Len(RawLines(files[p])) = n
               /\ loaded.warnings = <<>>
               /\ Len(loaded.records) = n
               /\ {<<r.call, r.rec>> : r \in Range(loaded.records)}
                    = {<<a.call, a.rec>> : a \in AckedTo(p)}
               /\ (\A a, b \in AckedTo(p) : a # b => a.rec.id # b.rec.id)
                    => \A i, j \in 1..Len(loaded.records) :
                          i # j => loaded.records[i].rec.id # loaded.records[j].rec.id

C1_Witness ==
    /\ \A w \in Writers : ~AppendInProgress(w)
    /\ \E p \in AllPaths : \E a, b \in AckedTo(p) : a.by # b.by /\ a.rec.id # b.rec.id

\* C2: for every layer file at most one caller is between the creation of
\* the sentinel and its deletion, and the sentinel exists while a caller is.
C2_MutualExclusion ==
    /\ \A p \in AllPaths :
          Cardinality({w \in Writers : InSection(w) /\ cur[w].target = p}) <= 1
    /\ \A w \in Writers : InSection(w) => cur[w].target \in locks

C2_Witness ==
    \E w, v \in Writers :
        /\ pc[w] = "partial" /\ pc[v] = "locking"
        /\ cur[w].target = cur[v].target

SerialsAscend(chunks) ==
    \A i, j \in 1..Len(chunks) :
        (i < j /\ chunks[i].call > 0 /\ chunks[j].call > 0) => chunks[i].call < chunks[j].call

\* C3 as stated: in every step of the program the lines of every layer file
\* are a prefix of its lines after the step.
C3_AppendOnlyAllOperations ==
    [][\A p \in AllPaths : IsPrefix(Lines(files[p]), Lines(files'[p]))]_vars

\* C3 for append_entry alone: in every step other than the rewrite of the
\* prune command the lines of every layer file are a prefix of its lines after
\* the step, and the lines of a file are in the order of the writes.
C3_AppendOnlyStore ==
    [][\/ cli.pc = "pwrite" /\ cli'.pc = "pwritten"
       \/ \A p \in AllPaths : /\ IsPrefix(Lines(files[p]), Lines(files'[p]))
                              /\ SerialsAscend(files'[p])]_vars

C3_Witness ==
    \E p \in AllPaths : \E i, j \in 1..Len(files[p]) :
        /\ i < j
        /\ files[p][i].part = "full" /\ files[p][j].part = "full"
        /\ files[p][i].by = files[p][j].by

\* C4: a step in which append_entry raises changes no directory, file or
\* sentinel.
C4_NoPartialEffect ==
    [][outcome'.status = "error" =>
          /\ dirs' = dirs /\ exists' = exists /\ files' = files /\ locks' = locks]_vars

InView(w, a) ==
    \E i \in 1..Len(view[w]) : view[w][i].call = a.call /\ view[w][i].rec = a.rec

Rank(layer) == CHOOSE i \in 1..Len(policy.read_layers) : policy.read_layers[i] = layer

\* C6: in the result of get_all_records the records of an earlier read layer
\* come before those of a later one, and within a layer a record written
\* later comes first.
C6_PrecedenceOrder ==
    \A w \in Writers : pc[w] = "gdone" =>
        \A i, j \in 1..Len(view[w]) : i < j =>
            /\ Rank(view[w][i].source_layer) <= Rank(view[w][j].source_layer)
            /\ view[w][i].source_layer = view[w][j].source_layer
                  => view[w][i].call > view[w][j].call

C6_Witness ==
    \E w \in Writers :
        /\ pc[w] = "gdone" /\ Len(view[w]) >= 2
        /\ view[w][1].source_layer = view[w][2].source_layer
        /\ view[w][1].call > view[w][2].call

\* the serial numbers of the complete lines with the id in a file
SerialsOf(p, id) ==
    {files[p][i].call : i \in {k \in 1..Len(files[p]) :
        files[p][k].part = "full" /\ files[p][k].obj.id = Some(id)}}

StoredBy(p, serial) ==
    files[p][CHOOSE i \in 1..Len(files[p]) : files[p][i].call = serial].obj

Max(S) == CHOOSE x \in S : \A y \in S : y <= x
Min(S) == CHOOSE x \in S : \A y \in S : x <= y

Quiet(w) == pc[w] = "gdone" /\ gstart[w] = nwritten

\* C7: when nothing was written while get_all_records ran, the first record
\* with an id (and the chunk get_chunk makes of the result) is the record
\* written last with that id to the first read layer whose file holds the id;
\* when no read layer holds the id there is none.
C7_PrecedenceById ==
    \A w \in Writers : Quiet(w) =>
        \A id \in {"r1", "r2"} :
            LET plan == build_retrieval_plan(policy, agent[w])
                holding == {i \in 1..Len(plan) : SerialsOf(plan[i].path, id) # {}}
                k == FirstWithId(view[w], id, 1)
            IN IF holding = {}
               THEN k = 0 /\ get_chunk(view[w], id) = <<>>
               ELSE LET top == plan[Min(holding)]
                        newest == Max(SerialsOf(top.path, id))
                    IN /\ k > 0
                       /\ view[w][k].call = newest
                       /\ view[w][k].source_layer = top.layer
                       /\ get_chunk(view[w], id)
                            = <<_record_to_chunk(StoredBy(top.path, newest))>>

\* the id is in two read layers and the lower-ranked layer was written later
C7_Witness ==
    \E w \in Writers : Quiet(w) /\
        \E id \in {"r1", "r2"} :
            LET plan == build_retrieval_plan(policy, agent[w])
            IN /\ Len(plan) = 2
               /\ SerialsOf(plan[1].path, id) # {}
               /\ SerialsOf(plan[2].path, id) # {}
               /\ Max(SerialsOf(plan[1].path, id)) < Max(SerialsOf(plan[2].path, id))
               /\ StoredBy(plan[1].path, Max(SerialsOf(plan[1].path, id))).content
                    # StoredBy(plan[2].path, Max(SerialsOf(plan[2].path, id))).content

\* C8: the result of get_all_records of a Store holds no record that a Store
\* with another agent id appended to its project_agent layer.
C8_AgentIsolation ==
    \A w \in Writers : pc[w] = "gdone" =>
        \A i \in 1..Len(view[w]) :
            ~(/\ view[w][i].by # w
              /\ agent[view[w][i].by] # agent[w]
              /\ view[w][i].rec.scope = Some("project_agent"))

\* C9: a get_all_records of a Store whose read_layers contain project_global
\* returns, with the stored content, every record that any Store had written
\* to project_global when the call started.
C9_GlobalShared ==
    \A w \in Writers : (pc[w] = "gdone" /\ "project_global" \in ReadLayers) =>
        \A a \in acked : (a.layer = "project_global" /\ a.call <= gstart[w]) =>
            \E i \in 1..Len(view[w]) :
                /\ view[w][i].call = a.call
                /\ view[w][i].rec = a.rec
                /\ view[w][i].source_layer = "project_global"

C9_Witness ==
    \E w \in Writers : pc[w] = "gdone" /\
        \E i \in 1..Len(view[w]) :
            /\ view[w][i].source_layer = "project_global"
            /\ view[w][i].by # w
            /\ agent[view[w][i].by] = AgentB

UserGlobalFile == resolve_all_layer_paths(policy, AgentA)["user_global"]

\* C10 as stated: with allow_user_global_write false an append_entry to
\* user_global ends with PermissionError.
C10_AlwaysPermissionError ==
    (~policy.allow_user_global_write /\ outcome.status # "none"
        /\ outcome.layer = "user_global")
    => (outcome.status = "error" /\ outcome.err = "PermissionError")

\* C10 amended: with allow_user_global_write false an append_entry to
\* user_global raises and the user_global file is never written; the error is
\* PermissionError when user_global is in write_layers and the
\* layer-not-writable error when it is not.
C10_UserGlobalWriteGated ==
    ~policy.allow_user_global_write =>
        /\ UserGlobalFile \notin exists /\ files[UserGlobalFile] = <<>>
        /\ (outcome.status # "none" /\ outcome.layer = "user_global") =>
              /\ outcome.status = "error"
              /\ outcome.err = IF "user_global" \in Range(policy.write_layers)
                               THEN "PermissionError" ELSE "LayerNotWritable"

C10_Witness ==
    /\ ~policy.allow_user_global_write
    /\ "user_global" \in Range(policy.write_layers)
    /\ outcome.layer = "user_global" /\ outcome.err = "PermissionError"

\* the error of the first check that fails for the layer, "" when the checks
\* on the layer all pass
FirstLayerError(layer) ==
    CASE layer \notin ALLOWED_LAYERS -> "UnknownLayer"
      [] layer \in ALLOWED_LAYERS /\ layer \notin Range(policy.write_layers)
            -> "LayerNotWritable"
      [] OTHER -> IF layer \in USER_GLOBAL_LAYERS /\ ~policy.allow_user_global_write
                  THEN "PermissionError" ELSE ""

\* C11: an append_entry that raises before it waits for the lock raises the
\* error of the first failing check in the order unknown layer, layer not in
\* write_layers, user-global permission, validation; one that gets past the
\* checks (it returns, or times out on the lock) fails none of the first three.
C11_ErrorOrder ==
    outcome.status # "none" =>
        IF outcome.status = "error" /\ outcome.err # "TimeoutError"
        THEN outcome.err = IF FirstLayerError(outcome.layer) # ""
                           THEN FirstLayerError(outcome.layer) ELSE "ValidationError"
        ELSE FirstLayerError(outcome.layer) = ""

\* the layer is neither in write_layers nor permitted: the earlier check wins
C11_Witness ==
    /\ outcome.status = "error" /\ outcome.err = "LayerNotWritable"
    /\ outcome.layer \in USER_GLOBAL_LAYERS /\ ~policy.allow_user_global_write

UnsafeWrites(pol) ==
    /\ ~pol.allow_user_global_write
    /\ Range(pol.write_layers) \cap USER_GLOBAL_LAYERS # {}

\* C12 as stated: no Store has a call in progress on a policy with
\* allow_user_global_write false and a user layer in write_layers.
C12_NoStoreOnUnsafePolicy ==
    (\E w \in Writers : pc[w] # "idle") => ~UnsafeWrites(policy)

\* C12 amended: the Store that setup_store builds from load_memory_policy has
\* no command in progress on a policy with allow_user_global_write false and
\* a user layer in write_layers.
C12_LoadedPolicySafe ==
    cli.pc # "idle" => ~UnsafeWrites(policy)

\* a loaded policy with a user layer in write_layers, opted in
C12_Witness ==
    /\ cli.pc # "idle"
    /\ "user_global" \in Range(policy.write_layers)

GlobalLayers == {"project_global", "user_global"}

Prepared == probe.err = "none"

\* the rules in force: the default set when the policy has none
EffectiveRules == IF policy.redaction_rules = <<>>
                  THEN {"api_key", "token", "password", "secret", "private_key"}
                  ELSE Range(policy.redaction_rules)

\* the token is a rule keyword, in any case
IsKeyword(tok, rules) == tok \in rules \/ (tok = "API_KEY" /\ "api_key" \in rules)

KeywordsAt(text, rules) == {i \in 1..Len(text) : IsKeyword(text[i], rules)}

\* When the first keyword of the text is directly followed by ":" or "=" and
\* a value, the stored text is the same up to the separator and has the
\* marker in place of the value.
FirstValueMasked(text, stored, rules) ==
    LET at == KeywordsAt(text, rules)
        i == Min(at)
    IN (/\ at # {} /\ i + 2 <= Len(text)
        /\ text[i + 1] \in {":", "="} /\ text[i + 2] \notin {" ", ",", ";"})
       => /\ Len(stored) >= i + 2
          /\ SubSeq(stored, 1, i + 2) = SubSeq(text, 1, i + 1) \o <<"[REDACTED]">>

\* the values that follow a keyword in the text: the words after a keyword and
\* a separator or blanks
FollowingValues(text, rules) ==
    {text[j] : j \in {k \in 1..Len(text) :
        /\ text[k] \notin {" ", ",", ";", ":", "="} /\ ~IsKeyword(text[k], rules)
        /\ \E i \in KeywordsAt(text, rules) :
              /\ i + 1 < k
              /\ \A m \in (i + 1)..(k - 1) : text[m] \in {" ", ":", "="}
              /\ Cardinality({m \in (i + 1)..(k - 1) : text[m] \in {":", "="}}) <= 1}}

\* C13 as stated: after a successful _prepare_record for a global layer the
\* content and the tags are the redaction of the submitted ones, and no value
\* that follows a rule keyword in the submitted content is in the stored content.
C13_ValueNeverStored ==
    (Prepared /\ probe.layer \in GlobalLayers) =>
        /\ probe.rec.content
              = Some(apply_redaction_rules(probe.record.content[1], policy.redaction_rules))
        /\ \A v \in FollowingValues(probe.record.content[1], EffectiveRules) :
              v \notin Range(probe.rec.content[1])

\* C13 amended: after a successful _prepare_record for a global layer the
\* content and every tag are apply_redaction_rules of the submitted ones, and
\* where the first keyword is directly followed by a separator and a value
\* the marker stands in place of that value.
C13_RedactionApplied ==
    (Prepared /\ probe.layer \in GlobalLayers) =>
        LET before == probe.record
            after == probe.rec
        IN /\ after.content
                = Some(apply_redaction_rules(before.content[1], policy.redaction_rules))
           /\ FirstValueMasked(before.content[1], after.content[1], EffectiveRules)
           /\ Has(before, "tags") =>
                /\ Len(after.tags[1]) = Len(before.tags[1])
                /\ \A i \in 1..Len(before.tags[1]) :
                      /\ after.tags[1][i]
                            = apply_redaction_rules(before.tags[1][i], policy.redaction_rules)
                      /\ FirstValueMasked(before.tags[1][i], after.tags[1][i], EffectiveRules)

\* a keyword in capitals with its value, stored with the marker
C13_Witness ==
    /\ Prepared /\ probe.layer = "project_global"
    /\ probe.record.content[1][1] = "API_KEY"
    /\ "api_key" \in EffectiveRules
    /\ probe.rec.content[1][3] = "[REDACTED]"

\* C14: after a successful _prepare_record for project_agent or user_agent
\* the content is the submitted content and the tags are the submitted tags
\* (the empty list when none were submitted).
C14_PrivateLayersVerbatim ==
    (Prepared /\ probe.layer \in {"project_agent", "user_agent"}) =>
        /\ probe.rec.content = probe.record.content
        /\ probe.rec.tags = IF Has(probe.record, "tags") THEN probe.record.tags ELSE Some(<<>>)

\* a content and tags with keyword and value, stored as they are
C14_Witness ==
    /\ Prepared /\ probe.layer = "user_agent"
    /\ FollowingValues(probe.record.content[1], EffectiveRules) # {}
    /\ probe.rec.content = probe.record.content

\* C15: with policy.redaction_rules empty, a successful _prepare_record for a
\* global layer stores the content and the tags redacted with the default
\* rule set: a default keyword directly followed by a separator and a value
\* has the marker in place of the value.
C15_DefaultRulesWhenEmpty ==
    (Prepared /\ probe.layer \in GlobalLayers /\ policy.redaction_rules = <<>>) =>
        LET defaults == {"api_key", "token", "password", "secret", "private_key"}
            before == probe.record
            after == probe.rec
        IN /\ after.content = Some(ApplyRules(before.content[1], DEFAULT_REDACTION_RULES))
           /\ FirstValueMasked(before.content[1], after.content[1], defaults)
           /\ KeywordsAt(before.content[1], defaults) = {}
                => after.content = before.content
           /\ Has(before, "tags") =>
                \A i \in 1..Len(before.tags[1]) :
                    FirstValueMasked(before.tags[1][i], after.tags[1][i], defaults)

\* "password: sk-12345" under a policy without rules
C15_Witness ==
    /\ Prepared /\ probe.layer \in GlobalLayers /\ policy.redaction_rules = <<>>
    /\ probe.record.content[1][1] = "password"
    /\ "[REDACTED]" \in Range(probe.rec.content[1])
    /\ "sk-12345" \notin Range(probe.rec.content[1])

Crashed(w) == pc[w] = "crashed"

\* the sentinel of the file was left behind by a writer that died
Stale(p) == \E w \in Writers : Crashed(w) /\ cur[w].target = p

\* C16: every append_entry call in progress ends: it returns or raises, at
\* the latest by the lock timeout when the sentinel is never released (or
\* the process dies inside the lock).
C16_AppendTerminates ==
    \A w \in Writers : AppendInProgress(w) ~> (pc[w] = "idle" \/ Crashed(w))

\* a caller waits for a sentinel that will never be released
C16_Witness ==
    \E w, v \in Writers :
        /\ pc[w] = "locking" /\ Crashed(v)
        /\ cur[w].target = cur[v].target

\* C17: a caller that stops waiting while the sentinel exists raises
\* TimeoutError and its call is over; the step changes no file and no sentinel.
C17_TimeoutTerminal ==
    [][\A w \in Writers :
          (pc[w] = "locking" /\ cur[w].target \in locks /\ pc'[w] # "locking") =>
              /\ outcome'.status = "error" /\ outcome'.err = "TimeoutError"
              /\ pc'[w] = "idle" /\ cur'[w] = NoCall
              /\ files' = files /\ exists' = exists /\ locks' = locks]_vars

\* a caller has timed out and the owner still holds the sentinel
C17_Witness ==
    /\ outcome.err = "TimeoutError"
    /\ \E v \in Writers : InSection(v) /\ cur[v].target \in locks
                             /\ cur[v].layer = outcome.layer

\* C18: the sentinel of a writer that died inside the lock stays; the file
\* gets no further line, nobody else enters the section of that file, and a
\* caller waiting for it leaves only with TimeoutError.
C18_StaleSentinelPersists ==
    /\ [](\A p \in AllPaths : Stale(p) =>
              /\ p \in locks
              /\ \A w \in Writers : ~(InSection(w) /\ cur[w].target = p))
    /\ [][\A p \in AllPaths : Stale(p) =>
              /\ Lines(files'[p]) = Lines(files[p])
              /\ \A w \in Writers :
                    (pc[w] = "locking" /\ cur[w].target = p /\ pc'[w] # "locking")
                        => outcome'.err = "TimeoutError"]_vars

\* an append that started after the death of the owner has timed out
C18_Witness ==
    /\ outcome.err = "TimeoutError"
    /\ \E v \in Writers : Crashed(v) /\ cur[v].layer = outcome.layer
                             /\ cur[v].target \in locks

\* v holds the sentinel of its file, or has left it behind
HoldsSentinel(v) == InSection(v) \/ Crashed(v)

\* the two calls are for the same layer: the same global layer, or the same
\* agent layer of the same agent
SameLayer(v, w) ==
    /\ cur[v].layer = cur[w].layer
    /\ (cur[w].layer \in GlobalLayers \/ agent[v] = agent[w])

\* C19: a caller that finds the sentinel of its layer file in place is
\* kept out by a call for the same layer, never by one for another layer.
C19_NoCrossLayerContention ==
    \A w \in Writers :
        (pc[w] = "locking" /\ cur[w].target \in locks) =>
            \E v \in Writers \ {w} :
                HoldsSentinel(v) /\ cur[v].target = cur[w].target /\ SameLayer(v, w)

\* a call for the agent layer waits for the sentinel of the project-wide layer
C19_Witness ==
    \E w, v \in Writers :
        /\ pc[w] = "locking" /\ cur[w].layer = "project_agent"
        /\ HoldsSentinel(v) /\ cur[v].layer = "project_global"
        /\ cur[v].target = cur[w].target /\ cur[w].target \in locks

\* the records of the result that come from the layer
FromLayer(records, layer) == SelectSeq(records, LAMBDA r : r.source_layer = layer)

C21_ReadLockFree ==
    /\ \A w \in Writers : (pc[w] \in {"reading", "gdone"}) ~> (pc[w] = "idle")
    /\ [][\A w \in Writers :
            (GetStart(w) \/ GetRead(w) \/ GetReturn(w)) =>
                /\ files' = files /\ exists' = exists /\ dirs' = dirs
                /\ locks' = locks /\ durable' = durable]_vars

\* a reader has the line of a writer that died inside the lock before the
\* read began: the sentinel of that file was there during the whole read
C21_Witness ==
    \E w, v \in Writers :
        /\ pc[w] = "gdone" /\ Crashed(v) /\ cur[v].target \in locks
        /\ \A a \in acked : a.by # v
        /\ OwnSerial(v) > 0 /\ OwnSerial(v) <= gstart[w]
        /\ \E i \in 1..Len(view[w]) :
              view[w][i].call = OwnSerial(v) /\ view[w][i].source_path = cur[v].target

\* the last line of the file has no newline
Truncated(chunks) == chunks # <<>> /\ chunks[Len(chunks)].part = "head"

\* C22: a file ends with a truncated line only while the writer of that
\* line is between the two parts of its write.
C22_NoTruncatedLine ==
    \A p \in AllPaths :
        Truncated(files[p]) => \E w \in Writers : pc[w] = "partial" /\ cur[w].target = p

\* a writer has died and its file ends with the first part of its line
C22_Witness ==
    \E w \in Writers : Crashed(w) /\ Truncated(files[cur[w].target])
                           /\ files[cur[w].target][Len(files[cur[w].target])].by = w

\* the chunks hold the complete line of the append
HasLine(chunks, a) ==
    \E i \in 1..Len(chunks) :
        chunks[i].part = "full" /\ chunks[i].call = a.call /\ chunks[i].obj = a.rec

LoadProbe == probe # NoProbe /\ probe.fn = "load_jsonl_records"
ValidateProbe == probe # NoProbe /\ probe.fn = "validate_record"

\* what becomes of line number n of a file: skipped as blank, a record, a
\* warning of some kind, or an exception
LineStatus(lines, n) ==
    IF IsBlank(lines[n]) THEN "blank"
    ELSE IF ~json_loads(lines[n]).ok THEN "invalid_json"
    ELSE LET v == validate_record(json_loads(lines[n]).obj, n)
         IN IF v.raised # "" THEN "raises"
            ELSE IF v.warning # NoWarning THEN v.warning.code
            ELSE "valid"

Numbers(lines, statuses) ==
    SelectSeq([n \in 1..Len(lines) |-> n], LAMBDA n : LineStatus(lines, n) \in statuses)

WarningKinds == {"invalid_json", "invalid_record_type", "missing_required_fields",
                 "invalid_scope", "invalid_agent_scope"}

\* the result is the records of the valid lines in file order and one
\* warning, with its line number, for each other line that is not blank
ExactLoad(lines, out) ==
    LET valid == Numbers(lines, {"valid"})
        failing == Numbers(lines, WarningKinds \cup {"raises"})
    IN /\ out.raised = ""
       /\ Len(out.records) = Len(valid)
       /\ \A k \in 1..Len(valid) :
             out.records[k].rec = validate_record(json_loads(lines[valid[k]]).obj,
                                                  valid[k]).record[1]
       /\ Len(out.warnings) = Len(failing)
       /\ \A k \in 1..Len(failing) :
             /\ out.warnings[k].line = failing[k]
             /\ out.warnings[k].code = LineStatus(lines, failing[k])
             /\ out.warnings[k].code \in WarningKinds

\* C24: load_jsonl_records returns, for every file, the records of exactly
\* the valid lines in file order and exactly one warning with the 1-based
\* line number for each non-blank line that fails; nothing for a missing file.
C24_LoadNeverAborts ==
    LoadProbe =>
        /\ ExactLoad(RawLines(probe.chunks), probe.out)
        /\ ~probe.there => (probe.out.records = <<>> /\ probe.out.warnings = <<>>)

\* C24 for the files in which no line has a list or an object as scope
C24_LoadHashableScopes ==
    (LoadProbe /\ \A i \in 1..Len(probe.chunks) :
                    probe.chunks[i].obj = NonDict \/ probe.chunks[i].obj.scope # Some("<list>"))
        => ExactLoad(RawLines(probe.chunks), probe.out)

\* a line that is no JSON between two valid lines: two records, one warning
C24_Witness ==
    /\ LoadProbe
    /\ Len(probe.chunks) = 3 /\ probe.chunks[2].part = "junk"
    /\ Len(probe.out.records) = 2
    /\ probe.out.warnings = <<_warning("invalid_json", 2, <<>>)>>

\* the warning kind that is the first to apply to the record
ExpectedKind(record) ==
    IF ~IsDict(record) THEN "invalid_record_type"
    ELSE IF \E i \in 1..Len(REQUIRED_FIELDS) : Falsy(record, REQUIRED_FIELDS[i])
    THEN "missing_required_fields"
    ELSE IF record.scope[1] \notin ALLOWED_SCOPES THEN "invalid_scope"
    ELSE IF record.scope[1] \in AGENT_SCOPES /\ Falsy(record, "agent_id")
    THEN "invalid_agent_scope"
    ELSE "none"

ValidateTotal ==
    LET out == probe.out
    IN /\ out.raised = ""
       /\ (out.record = <<>>) # (out.warning = NoWarning)
       /\ out.warning.code = ExpectedKind(probe.record)
       /\ out.warning # NoWarning => out.warning.line = probe.line
       /\ out.warning.code = "missing_required_fields" =>
             /\ \A i \in 1..Len(REQUIRED_FIELDS) :
                   Falsy(probe.record, REQUIRED_FIELDS[i])
                       <=> REQUIRED_FIELDS[i] \in Range(out.warning.missing_fields)
             /\ Len(out.warning.missing_fields)
                   = Cardinality(Range(out.warning.missing_fields))
             /\ Range(out.warning.missing_fields) \subseteq Range(REQUIRED_FIELDS)

\* C29: validate_record returns for every input, with either a record or a
\* warning; the warning is of the first kind that applies, and
\* missing_required_fields names exactly the absent or empty required fields.
C29_ValidateTotalOrdered == ValidateProbe => ValidateTotal

\* C29 for the records whose scope is not a list or an object
C29_ValidateHashableScopes ==
    (ValidateProbe /\ (IsDict(probe.record) => probe.record.scope # Some("<list>")))
        => ValidateTotal

\* a record with every required field and a list as scope
C29_Witness ==
    /\ ValidateProbe /\ IsDict(probe.record)
    /\ \A i \in 1..Len(REQUIRED_FIELDS) : ~Falsy(probe.record, REQUIRED_FIELDS[i])
    /\ probe.record.scope = Some("<list>")
    /\ probe.out.raised = "TypeError"

\* C28: an accepted record comes back with tags, confidence, source and
\* expires_at, which are [], 0.7, "unknown" and null where the input had
\* none, and validating the result again returns it unchanged with no warning.
C28_NormalizeIdempotent ==
    (ValidateProbe /\ probe.out.record # <<>>) =>
        LET r == probe.out.record[1]
        IN /\ Has(r, "tags") /\ Has(r, "confidence") /\ Has(r, "source")
           /\ Has(r, "expires_at")
           /\ ~Has(probe.record, "tags") => r.tags = Some(<<>>)
           /\ ~Has(probe.record, "confidence") => r.confidence = Some("0.7")
           /\ ~Has(probe.record, "source") => r.source = Some("unknown")
           /\ ~Has(probe.record, "expires_at") => r.expires_at = Some(NULL)
           /\ \A f \in DOMAIN r \ {"tags", "confidence", "source", "expires_at"} :
                 r[f] = probe.record[f]
           /\ probe.again = [record |-> <<r>>, raised |-> "", warning |-> NoWarning]

\* a record with only the required fields has been accepted
C28_Witness ==
    /\ ValidateProbe /\ probe.out.record # <<>>
    /\ ~Has(probe.record, "tags") /\ ~Has(probe.record, "confidence")
    /\ ~Has(probe.record, "source") /\ ~Has(probe.record, "expires_at")
    /\ ~Has(probe.record, "agent_id")

\* the warnings in the result that are about the file
WarningsAbout(result, path) == SelectSeq(result.warnings, LAMBDA x : x.path = path)

\* C25: no read of the Store raises, and the result of a read has, for each
\* read layer, a warning for every malformed line of the layer file and the
\* record of every valid line.
C25_WarningsDelivered ==
    /\ outcome.err # "TypeError"
    /\ \A w \in Writers : pc[w] = "gdone" =>
          LET plan == build_retrieval_plan(policy, agent[w])
          IN \A k \in 1..Len(plan) :
                LET loaded == load_jsonl_records(plan[k].path \in exists, files[plan[k].path])
                IN /\ Len(WarningsAbout(Returned(w), plan[k].path)) = Len(loaded.warnings)
                   /\ Len(FromLayer(Returned(w).records, plan[k].layer))
                         = Len(loaded.records)

\* C25 for the records alone: a read that returns has the record of every
\* valid line of every read layer
C25_ValidRecordsDelivered ==
    \A w \in Writers : pc[w] = "gdone" =>
        LET plan == build_retrieval_plan(policy, agent[w])
        IN \A k \in 1..Len(plan) :
              LET lines == RawLines(files[plan[k].path])
                  valid == Numbers(lines, {"valid"})
                  got == FromLayer(Returned(w).records, plan[k].layer)
              IN /\ Len(got) = Len(valid)
                 /\ \A i \in 1..Len(valid) :
                       got[Len(valid) + 1 - i].rec
                          = validate_record(json_loads(lines[valid[i]]).obj, valid[i]).record[1]

\* a read has returned the records of a file with a line that is no JSON
C25_Witness ==
    \E w \in Writers : pc[w] = "gdone" /\ view[w] # <<>> /\
        \E p \in AllPaths : \E i \in 1..Len(files[p]) : files[p][i].part = "junk"

\* C26: the record of every append_entry to an agent layer that returned
\* has the agent id of the Store that made the call.
C26_AgentIdIsWriter ==
    \A a \in acked : a.layer \in AGENT_SCOPES => a.rec.agent_id = Some(agent[a.by])

\* C26 for the records submitted without agent_id
C26_AgentIdDefaulted ==
    [][\A w \in Writers :
          (pc[w] = "idle" /\ pc'[w] = "locking" /\ cur'[w].layer \in AGENT_SCOPES) =>
              \/ cur'[w].payload.agent_id = Some(agent[w])
              \/ \E record \in InputRecords :
                    /\ Has(record, "agent_id")
                    /\ cur'[w].payload.agent_id = record.agent_id]_vars

\* the file of an agent has a record with the id of another agent
C26_Witness ==
    \E a \in acked :
        /\ a.layer = "project_agent" /\ agent[a.by] = AgentA
        /\ a.rec.agent_id = Some(AgentB)
        /\ HasLine(files[_paths(a.by)["project_agent"]], a)

\* C27: the record of every append_entry that returned has the layer of the
\* call as scope, and every record in the result of get_all_records has its
\* source_layer as scope and the path of that layer as source_path.
C27_ScopeIsLayer ==
    /\ \A a \in acked : a.rec.scope = Some(a.layer)
    /\ \A w \in Writers : \A i \in 1..Len(view[w]) :
          /\ view[w][i].rec.scope = Some(view[w][i].source_layer)
          /\ view[w][i].source_path = _paths(w)[view[w][i].source_layer]

\* C27 for the stored record alone
C27_StoredScopeIsLayer ==
    \A a \in acked : a.rec.scope = Some(a.layer) /\ HasLine(files[a.path], a)

\* a read of project_global has returned a record stored as project_agent
C27_Witness ==
    \E w \in Writers : \E i \in 1..Len(view[w]) :
        /\ view[w][i].source_layer = "project_global"
        /\ view[w][i].rec.scope = Some("project_agent")

\* the errors that come from the policy, not from the arguments of the call
ConfigurationErrors == {"UnknownReadLayer"}

\* C30 as stated: no append_entry and no get_all_records of a constructed
\* Store ends with an error of the configuration.
C30_NoConfigErrorAfterConstruction == outcome.err \notin ConfigurationErrors

\* C30: with a policy that load_memory_policy accepts, no append_entry and no
\* get_all_records of a Store ends with an error of the configuration.
C30_LoadedPolicyNoConfigError ==
    PolicyLoads(policy) => outcome.err \notin ConfigurationErrors

\* under a policy that loads, a read has run to its end and an append has returned
C30_Witness ==
    /\ PolicyLoads(policy)
    /\ acked # {}
    /\ \E w \in Writers : pc[w] = "gdone"

\* what the checks of append_entry before the lock say about a call
RejectKinds == {"UnknownLayer", "LayerNotWritable", "PermissionError", "ValidationError"}

Rejection(w, layer, record) ==
    IF layer \notin DOMAIN _paths(w) THEN "UnknownLayer"
    ELSE _prepare_record(policy, agent[w], layer, record).err

\* C31: an append_entry that a check rejects ends in the step it starts in,
\* with one of the four errors and without a change to any sentinel or
\* file; and for every Store that can call and every layer for which some
\* record is rejected, that rejection can happen in every state, whatever
\* sentinels exist.
C31_RejectedBeforeLock ==
    /\ [](\A w \in Writers : \A layer \in LayerArgs :
            (/\ pc[w] = "idle" /\ ncalls < MaxCalls
             /\ \E record \in InputRecords : Rejection(w, layer, record) # "none")
            => ENABLED (CallFails(w) /\ outcome'.layer = layer))
    /\ [][\A w \in Writers : CallFails(w) =>
            /\ locks' = locks /\ files' = files /\ exists' = exists /\ pc' = pc
            /\ outcome'.status = "error" /\ outcome'.err \in RejectKinds]_vars

\* a record is rejected by validate_record for the layer whose sentinel a
\* dead writer left
C31_Witness ==
    \E v, w \in Writers :
        /\ v # w /\ Crashed(v) /\ cur[v].target \in locks
        /\ pc[w] = "idle"
        /\ outcome.status = "error" /\ outcome.err = "ValidationError"
        /\ outcome.layer = cur[v].layer
        /\ _paths(w)[outcome.layer] = cur[v].target

PathsProbe == probe # NoProbe /\ probe.fn = "resolve_all_layer_paths"

\* the four layers resolve to four files
Distinct4(paths) == Cardinality({paths[layer] : layer \in ALLOWED_LAYERS}) = 4

\* C33: whenever resolve_all_layer_paths returns, the paths of the four
\* layers are pairwise distinct.
C33_LayersDistinct ==
    (PathsProbe /\ probe.raised = "") => Distinct4(probe.out)

\* an agent id of one component that is a name, under a project root that
\* is not the home directory
PlainInput ==
    /\ Len(probe.agent_id) = 1 /\ probe.agent_id[1] \notin {".", ".."}
    /\ probe.project_root # Some(HomeDir)

\* C33, for plain agent ids and a project outside the home directory: the
\* four paths are pairwise distinct.
C33_PlainLayersDistinct ==
    (PathsProbe /\ probe.raised = "" /\ PlainInput) => Distinct4(probe.out)

\* the agent id "../global" is accepted and its agent file is the
\* project-wide file
C33_Witness ==
    /\ PathsProbe /\ probe.raised = "" /\ probe.agent_id = AgentUp
    /\ probe.project_root = Some(<<"proj">>)
    /\ probe.out["project_agent"] = probe.out["project_global"]

\* the line is a record whose created_at is a date before the cutoff
OldRecord(line, cutoff) ==
    LET parsed == json_loads(line)
    IN /\ parsed.ok /\ IsDict(parsed.obj)
       /\ Has(parsed.obj, "created_at")
       /\ DayOf(parsed.obj.created_at[1]) # 0
       /\ DayOf(parsed.obj.created_at[1]) < cutoff

\* the file of every write layer holds the lines it held before the
\* command without the old records, in their order
PrunedExactly(before, after, cutoff) ==
    \A i \in 1..Len(policy.write_layers) :
        LET target == CliPaths[policy.write_layers[i]]
        IN RawLines(after[target]) =
              SelectSeq(RawLines(before[target]), LAMBDA l : ~OldRecord(l, cutoff))

\* C34: when the prune command ends, the file of each write layer holds
\* exactly the lines it held before that are not records older than the
\* cutoff, in their order.
C34_PruneExact ==
    [][(cli.pc # "idle" /\ cli'.pc = "idle") =>
          PrunedExactly(probe.before, files', cli.cutoff)]_vars

\* C34, for the runs of the command that end without an exception.
C34_PruneExactWhenReturns ==
    [][(cli.pc # "idle" /\ cli'.pc = "idle" /\ outcome'.status # "error") =>
          PrunedExactly(probe.before, files', cli.cutoff)]_vars

\* the command has ended with an exception and an old record is still in
\* the file of a write layer
C34_Witness ==
    /\ cli.pc = "idle" /\ ncalls > 0
    /\ outcome.err = "AttributeError"
    /\ \E i \in 1..Len(policy.write_layers), c \in Cutoffs :
          LET lines == RawLines(files[CliPaths[policy.write_layers[i]]])
          IN \E n \in 1..Len(lines) : OldRecord(lines[n], c)

\* C35: from the start of the second run of migrate_chunks on, every file
\* is as the first run left it, and when the second run has ended the ids
\* that list_chunks gives are those it gave after the first run.
C35_MigrationIdempotent ==
    mig.run = 2 =>
        /\ files = mig.after[1].files
        /\ Len(mig.after) = 2 => mig.after[2].chunks = mig.after[1].chunks

\* the first run has appended two chunks of the same id and the second run
\* has skipped both
C35_Witness ==
    /\ mig.run = 2 /\ mig.pc = "idle" /\ Len(mig.after) = 2
    /\ mig.skipped = 2 /\ mig.count = 0
    /\ nwritten = 2
    /\ Len(mig.after[2].chunks) = 1

\* the content of the saved chunk as append_entry stores it
StoredContent(chunk, layer) ==
    IF layer \in GlobalLayers THEN apply_redaction_rules(chunk.content, policy.redaction_rules)
    ELSE chunk.content

\* C36: get_chunk after save_chunk returns the chunk that was saved.
C36_GetReturnsSaved ==
    adapter.pc = "got" =>
        /\ adapter.got # <<>>
        /\ adapter.got[1].content = adapter.saved[1].content

\* the write layer is read, and no older version lies in a layer that is
\* read before it
NotShadowed ==
    /\ adapter.default_write_layer \in ReadLayers
    /\ \A l \in adapter.prior \cap ReadLayers : Rank(l) >= Rank(adapter.default_write_layer)

\* C36, where the write layer is read and no older version is in a layer
\* read before it: get_chunk returns the saved chunk as it was stored.
C36_GetReturnsSavedUnlessShadowed ==
    (adapter.pc = "got" /\ NotShadowed) =>
        /\ adapter.got # <<>>
        /\ adapter.got[1].content =
              StoredContent(adapter.saved[1], adapter.default_write_layer)
        /\ adapter.got[1].created = adapter.saved[1].created

\* the chunk was saved to the project-wide layer and get_chunk returns the
\* older version from the agent's layer
C36_Witness ==
    /\ adapter.pc = "got" /\ adapter.default_write_layer = "project_global"
    /\ adapter.prior = {"project_agent"}
    /\ adapter.saved[1].content = <<"new">>
    /\ adapter.got # <<>> /\ adapter.got[1].content = <<"old">>

OnFile(a) ==
    \E i \in 1..Len(Lines(files[a.path])) :
        \E j \in 1..Len(Lines(files[a.path])[i]) :
            /\ Lines(files[a.path])[i][j].call = a.call
            /\ Lines(files[a.path])[i][j].obj = a.rec

\* created_at of the record is older than the cutoff
OlderThan(rec, cutoff) ==
    /\ rec.created_at # <<>>
    /\ DayOf(rec.created_at[1]) # 0
    /\ DayOf(rec.created_at[1]) < cutoff

\* C38: with the prune command running next to the appends, the record of
\* every append_entry call that has returned is on a line of its layer file
\* unless its created_at is older than the cutoff of the prune.
C38_PruneKeepsConcurrentAppends ==
    \A a \in acked : (\A cutoff \in Cutoffs : ~OlderThan(a.rec, cutoff)) => OnFile(a)

\* the rewrite of the prune command leaves on the file every record that is
\* not older than the cutoff and whose line was on the file when the command
\* read it
C38_PruneKeepsWhatItRead ==
    [][(cli.pc = "pwrite" /\ cli'.pc = "pwritten") =>
          \A a \in AckedTo(cli.target) :
              (/\ ~OlderThan(a.rec, cli.cutoff)
               /\ \E i \in 1..Len(cli.retained) : cli.retained[i].call = a.call)
                  => OnFile(a)']_vars

\* the prune command has rewritten a file, and a record not older than the
\* cutoff whose append_entry returned between the read and the rewrite is
\* not on the file
C38_Witness ==
    /\ cli.pc = "pwritten"
    /\ \E a \in AckedTo(cli.target) : ~OlderThan(a.rec, cli.cutoff) /\ ~OnFile(a)

\* the valid lines of a layer file, as load_jsonl_records returns them
ValidLines(p) == load_jsonl_records(p \in exists, files[p]).records

\* the records of the result that come from the file
DeliveredFrom(w, p) == {i \in 1..Len(view[w]) : view[w][i].source_path = p}

\* the entries of the retrieval plan that name the file
PlanEntries(w, p) ==
    {i \in 1..Len(policy.read_layers) :
        build_retrieval_plan(policy, agent[w])[i].path = p}

\* C39: when get_all_records returns, its result holds, for every file of a
\* layer named in read_layers, as many records as the file has valid lines,
\* and none from any other file: each valid line once, the length of the
\* result being the number of valid lines of these files.
C39_EachLineOnce ==
    \A w \in Writers :
        pc[w] = "gdone" =>
            \A p \in AllPaths :
                Cardinality(DeliveredFrom(w, p)) =
                    IF PlanEntries(w, p) # {} THEN Len(ValidLines(p)) ELSE 0

\* when get_all_records returns, every file has delivered its valid lines
\* once for every entry of read_layers that names it
C39_EachLineOncePerEntry ==
    \A w \in Writers :
        pc[w] = "gdone" =>
            \A p \in AllPaths :
                Cardinality(DeliveredFrom(w, p)) =
                    Cardinality(PlanEntries(w, p)) * Len(ValidLines(p))

\* read_layers names project_global twice, its file has one valid line, and
\* the result of get_all_records holds that record two times
C39_Witness ==
    \E w \in Writers :
        /\ pc[w] = "gdone"
        /\ policy = PolTwice
        /\ Len(view[w]) = 2
        /\ view[w][1] = view[w][2]
        /\ Len(ValidLines(view[w][1].source_path)) = 1

=============================================================================
